---- MODULE Spec2Model ----
(***************************************************************************)
(* Model of the gate tokenizer and resolver of the cell-name-and-marker    *)
(* validator: split_gate and tokenize (src/src/common.py) and normalize    *)
(* (src/src/normalize.py).                                                 *)
(*                                                                         *)
(* A Python str is modelled as a sequence of one-character strings, so     *)
(* that endswith, strip, split, re.sub and str.replace are computed        *)
(* character by character, as the code computes them.  A Python dict is    *)
(* modelled as a sequence of <<key, value>> pairs in insertion order.      *)
(***************************************************************************)
EXTENDS Integers, Sequences, FiniteSets, TLC

VARIABLES
  op,                     \* the function under call
  done,                   \* FALSE: called with the inputs below; TRUE: returned
  gate, symbols,          \* split_gate(gate, symbols)
  split,                  \* its return value <<label, suffix>>
  projname, suffixsymbs, suffixsyns, reported,   \* tokenize(...)
  tokenized,              \* its return value
  dialect,                \* branch of the if/elif ladder tokenize took
  rawgates,               \* the list `gates` tokenize split the text into
  rewrites,               \* per raw gate: synonym rewrites applied by the loop
  gates, gate_mappings, special_gates, preferred,  \* normalize(...)
  preferred_label_gates, ontologized_gates,        \* its return values
  warnings,               \* per token: the count a printed warning reports, or 0
  raised,                 \* TRUE when the call ended in an exception
  synonym_iris, iri_labels, iri_parents, iri_gates,  \* the maps of the server
  cells_field, gates_field,  \* the fields of the last request, None before it
  cell, gating,           \* parse_cells_field's and parse_gates_field's results
  calls,                  \* calls the server has served
  file,                   \* the tab-separated file a table is built from
  marker_name, gate_names, valid_gates,  \* validate: one marker of one line
  errors,                 \* the messages validate appended for it
  main_row,               \* normalize.py main: one row of the input file
  runs,                   \* runs of tokenize-then-normalize, of the report and
                          \* of update_iri_maps_from_owl so far
  report_row,             \* generate_report_row(row): the dict `row`
  report_result,          \* whether it returned None
  report_rows, centers,   \* get_centers_info(report_rows) and its return value
  tree,                   \* update_iri_maps_from_owl(root): the classes of root
  default_maps,           \* the dicts its parameter defaults are bound to
  returned_maps           \* its return value

vars == <<op, done, gate, symbols, split, projname, suffixsymbs, suffixsyns,
          reported, tokenized, dialect, rawgates, rewrites, gates,
          gate_mappings, special_gates, preferred, preferred_label_gates,
          ontologized_gates, warnings, raised, synonym_iris, iri_labels,
          iri_parents, iri_gates, cells_field, gates_field, cell, gating,
          calls, file, marker_name, gate_names, valid_gates, errors, main_row,
          runs, report_row, report_result, report_rows, centers, tree,
          default_maps, returned_maps>>

serverVars == <<synonym_iris, iri_labels, iri_parents, iri_gates,
                cells_field, gates_field, cell, gating, calls>>
validateVars == <<marker_name, gate_names, valid_gates, errors>>
reportVars == <<report_row, report_result, report_rows, centers>>
owlVars == <<tree, default_maps, returned_maps>>

(***************************************************************************)
(* Bounds of the model.                                                    *)
(***************************************************************************)
MaxGateLen == 3      \* characters of a gate handed to split_gate
MaxSymbols == 2      \* suffix symbols handed to split_gate
MaxPieces == 3       \* pieces a reported text is built from
MaxGates == 2        \* tokens handed to normalize
MaxCalls == 3        \* calls the server serves
MaxLines == 2        \* lines of a file a table is built from
MaxRuns == 2         \* runs of one function on the same arguments
MaxRows == 2         \* rows of a report
MaxTrees == 3        \* calls of update_iri_maps_from_owl

(***************************************************************************)
(* Characters and strings.                                                 *)
(***************************************************************************)
Upper == <<"A","B","C","D","E","F","G","H","I","J","K","L","M",
           "N","O","P","Q","R","S","T","U","V","W","X","Y","Z">>
Lower == <<"a","b","c","d","e","f","g","h","i","j","k","l","m",
           "n","o","p","q","r","s","t","u","v","w","x","y","z">>
Digits == {"0","1","2","3","4","5","6","7","8","9"}
Letters == {Upper[i] : i \in 1..26} \cup {Lower[i] : i \in 1..26}

\* \s of the re module, restricted to the whitespace the inputs contain
IsSpace(c) == c \in {" ", "\t"}
\* \d
IsDigit(c) == c \in Digits
\* \w (str patterns are Unicode: the y-acute of the hyphen artifact is a letter)
IsWord(c) == c \in Letters \cup Digits \cup {"_", "ý"}

\* str.casefold of one character
FoldMap == [c \in {Upper[i] : i \in 1..26} |-> Lower[CHOOSE i \in 1..26 : Upper[i] = c]]
CaseFoldChar(c) == IF c \in DOMAIN FoldMap THEN FoldMap[c] ELSE c

\* str.casefold
CaseFold(s) == [i \in 1..Len(s) |-> CaseFoldChar(s[i])]

\* s[i:] with i a 1-based first index
From(s, i) == SubSeq(s, i, Len(s))

\* s.startswith(p, i-1): p occurs in s at 1-based index i
MatchAt(s, p, i) ==
  /\ i >= 1
  /\ i + Len(p) - 1 <= Len(s)
  /\ \A k \in 1..Len(p) : s[i + k - 1] = p[k]

\* str.endswith
EndsWith(s, p) == Len(p) <= Len(s) /\ MatchAt(s, p, Len(s) - Len(p) + 1)

StartsWith(s, p) == MatchAt(s, p, 1)

\* `sub in s`
Contains(s, sub) == \E i \in 1..(Len(s) + 1) : MatchAt(s, sub, i)

\* length of the run of whitespace starting at index i (0 when s[i] is none)
RECURSIVE SpaceRun(_, _)
SpaceRun(s, i) ==
  IF i <= Len(s) /\ IsSpace(s[i]) THEN 1 + SpaceRun(s, i + 1) ELSE 0

\* str.rstrip
RECURSIVE RStrip(_)
RStrip(s) ==
  IF Len(s) > 0 /\ IsSpace(s[Len(s)]) THEN RStrip(SubSeq(s, 1, Len(s) - 1)) ELSE s

\* str.strip
Strip(s) == RStrip(From(s, SpaceRun(s, 1) + 1))

\* concatenation of a list of strings
RECURSIVE Concat(_)
Concat(ss) == IF ss = <<>> THEN <<>> ELSE Head(ss) \o Concat(Tail(ss))

\* str.replace(old, new), old non-empty: leftmost non-overlapping occurrences
RECURSIVE Replace(_, _, _)
Replace(s, old, new) ==
  IF s = <<>> THEN <<>>
  ELSE IF MatchAt(s, old, 1)
    THEN new \o Replace(From(s, Len(old) + 1), old, new)
    ELSE <<s[1]>> \o Replace(Tail(s), old, new)

\* str.split(sep), sep non-empty
RECURSIVE SplitOn(_, _, _)
SplitOn(s, sep, cur) ==
  IF s = <<>> THEN <<cur>>
  ELSE IF MatchAt(s, sep, 1)
    THEN <<cur>> \o SplitOn(From(s, Len(sep) + 1), sep, <<>>)
    ELSE SplitOn(Tail(s), sep, Append(cur, s[1]))

StrSplit(s, sep) == SplitOn(s, sep, <<>>)

\* dict.get(key): the value, or None
None == <<"None">>
RECURSIVE DictGet(_, _)
DictGet(d, key) ==
  IF d = <<>> THEN None
  ELSE IF d[Len(d)][1] = key THEN d[Len(d)][2]
  ELSE DictGet(SubSeq(d, 1, Len(d) - 1), key)

\* `key in d`
HasKey(d, key) == \E i \in 1..Len(d) : d[i][1] = key

\* d.values()
Values(d) == [i \in 1..Len(d) |-> d[i][2]]

\* d.keys()
Keys(d) == [i \in 1..Len(d) |-> d[i][1]]

(***************************************************************************)
(* split_gate (common.py)                                                  *)
(***************************************************************************)

\* sorted(list(symbols), key=len, reverse=True): stable, longest first
RECURSIVE InsertByLen(_, _)
InsertByLen(sorted, x) ==
  IF sorted = <<>> THEN <<x>>
  ELSE IF Len(Head(sorted)) >= Len(x)
    THEN <<Head(sorted)>> \o InsertByLen(Tail(sorted), x)
    ELSE <<x>> \o sorted

\* list(symbols) left in the caller's order: the sort forgotten
SortedByLenDescUnsorted(syms) == syms

RECURSIVE SortedByLenDesc(_)
SortedByLenDesc(syms) ==
  IF syms = <<>> THEN <<>>
  ELSE InsertByLen(SortedByLenDesc(SubSeq(syms, 1, Len(syms) - 1)), syms[Len(syms)])

\* the loop of split_gate over the sorted symbols
RECURSIVE SplitLoop(_, _)
SplitLoop(g, sorted) ==
  IF sorted = <<>> THEN <<g, <<>>>>
  ELSE IF EndsWith(g, Head(sorted))
    \* gate[0:-len(symbol)]: with an empty symbol this is gate[0:0]
    THEN <<IF Len(Head(sorted)) = 0 THEN <<>>
           ELSE SubSeq(g, 1, Len(g) - Len(Head(sorted))), Head(sorted)>>
    ELSE SplitLoop(g, Tail(sorted))

split_gate(g, syms) == SplitLoop(g, SortedByLenDesc(syms))

(***************************************************************************)
(* tokenize (common.py): the dialect ladder                                *)
(***************************************************************************)
kw_LaJolla == <<"L","a","J","o","l","l","a">>
kw_ARA06 == <<"A","R","A","0","6">>
kw_CHI ==
  <<"C","e","n","t","e","r"," ","f","o","r"," ","H","u","m","a","n"," ","I",
  "m","m","u","n","o","l","o","g","y">>
kw_Wistar == <<"W","i","s","t","a","r">>
kw_IPIRC == <<"I","P","I","R","C">>
kw_Watson == <<"W","a","t","s","o","n">>
kw_Ltest == <<"L","t","e","s","t">>
kw_Seattle == <<"S","e","a","t","t","l","e"," ","B","i","o","m","e","d">>
kw_Emory == <<"E","m","o","r","y">>
kw_VRC == <<"V","R","C">>
kw_Ertl == <<"E","r","t","l">>
kw_Stanford == <<"S","t","a","n","f","o","r","d">>
kw_Baylor == <<"B","a","y","l","o","r">>
kw_Rochester == <<"R","o","c","h","e","s","t","e","r">>
kw_Mayo == <<"M","a","y","o">>
kw_Kidney ==
  <<"I","m","p","r","o","v","i","n","g"," ","K","i","d","n","e","y">>
kw_NYI ==
  <<"N","e","w"," ","Y","o","r","k"," ","I","n","f","l","u","e","n","z","a">>
kw_Viral == <<"M","o","d","e","l","i","n","g"," ","V","i","r","a","l">>
kw_Aging ==
  <<"I","m","m","u","n","o","b","i","o","l","o","g","y"," ","o","f"," ","A",
  "g","i","n","g">>
kw_Flow ==
  <<"F","l","o","w"," ","C","y","t","o","m","e","t","r","y"," ","A","n","a",
  "l","y","s","i","s">>
kw_ITN == <<"I","T","N","0","1","9","A","D">>

\* any_in_projname(kwds)
any_in_projname(pn, kwds) == \E k \in 1..Len(kwds) : Contains(pn, kwds[k])

\* The if/elif ladder of tokenize: the number of the branch taken, 1 for the
\* first, DefaultDialect for the final else.
DefaultDialect == 16

\* every test an `if` of its own instead of an `elif`: the last match wins
SelectDialectLastWins(pn) ==
  IF Contains(pn, kw_ITN) THEN 15
  ELSE IF Contains(pn, kw_Flow) THEN 14
  ELSE IF Contains(pn, kw_Aging) THEN 13
  ELSE IF Contains(pn, kw_Viral) THEN 12
  ELSE IF Contains(pn, kw_NYI) THEN 11
  ELSE IF Contains(pn, kw_Kidney) THEN 10
  ELSE IF Contains(pn, kw_Mayo) THEN 9
  ELSE IF Contains(pn, kw_Rochester) THEN 8
  ELSE IF Contains(pn, kw_Baylor) THEN 7
  ELSE IF Contains(pn, kw_Stanford) THEN 6
  ELSE IF Contains(pn, kw_Ertl) THEN 5
  ELSE IF Contains(pn, kw_VRC) THEN 4
  ELSE IF Contains(pn, kw_Emory) THEN 3
  ELSE IF any_in_projname(pn, <<kw_IPIRC, kw_Watson, kw_Ltest, kw_Seattle>>) THEN 2
  ELSE IF any_in_projname(pn, <<kw_LaJolla, kw_ARA06, kw_CHI, kw_Wistar>>) THEN 1
  ELSE DefaultDialect

SelectDialect(pn) ==
  IF any_in_projname(pn, <<kw_LaJolla, kw_ARA06, kw_CHI, kw_Wistar>>) THEN 1
  ELSE IF any_in_projname(pn, <<kw_IPIRC, kw_Watson, kw_Ltest, kw_Seattle>>) THEN 2
  ELSE IF Contains(pn, kw_Emory) THEN 3
  ELSE IF Contains(pn, kw_VRC) THEN 4
  ELSE IF Contains(pn, kw_Ertl) THEN 5
  ELSE IF Contains(pn, kw_Stanford) THEN 6
  ELSE IF Contains(pn, kw_Baylor) THEN 7
  ELSE IF Contains(pn, kw_Rochester) THEN 8
  ELSE IF Contains(pn, kw_Mayo) THEN 9
  ELSE IF Contains(pn, kw_Kidney) THEN 10
  ELSE IF Contains(pn, kw_NYI) THEN 11
  ELSE IF Contains(pn, kw_Viral) THEN 12
  ELSE IF Contains(pn, kw_Aging) THEN 13
  ELSE IF Contains(pn, kw_Flow) THEN 14
  ELSE IF Contains(pn, kw_ITN) THEN 15
  ELSE DefaultDialect

(***************************************************************************)
(* tokenize (common.py): the regular expressions                           *)
(***************************************************************************)
s_granulocyte == <<" ","g","r","a","n","u","l","o","c","y","t","e">>
s_comma_granulocyte == <<","," ","g","r","a","n","u","l","o","c","y","t","e">>
s_high == <<"h","i","g","h">>
s_high_sp == <<"h","i","g","h"," ">>
s_AND == <<"A","N","D">>
s_and == <<"a","n","d">>
s_uAND == <<"_","A","N","D","_">>
s_CD == <<"C","D">>
s_CX == <<"C","X">>
s_CCR == <<"C","C","R">>
s_CXCR == <<"C","X","C","R">>
s_BCL == <<"B","C","L">>
s_IF == <<"I","F">>
s_PD == <<"P","D">>
s_IL == <<"I","L">>
s_TNFa == <<"T","N","F","a">>
s_TNF == <<"T","N","F">>
s_Ig == <<"I","g">>
s_Per == <<"P","e","r">>
s_colon_space == <<":"," ">>

SpaceChars == {" ", "\t"}
WordChars == Letters \cup Digits \cup {"_", "ý"}
SignChars == {"-", "+"}

\* length of the run of characters of class cs starting at index i
RECURSIVE Run(_, _, _)
Run(s, i, cs) == IF i <= Len(s) /\ s[i] \in cs THEN 1 + Run(s, i + 1, cs) ELSE 0

\* lit followed by one character of class cs, at index i
LitThen(s, i, l, cs) ==
  /\ MatchAt(s, l, i)
  /\ i + Len(l) <= Len(s)
  /\ s[i + Len(l)] \in cs

\* re.sub(r'^.*:\s+', r'', reported) under `if ': ' in reported`: the greedy
\* .* runs to the last colon that whitespace follows
ColonStrip(s) ==
  IF Contains(s, s_colon_space)
    THEN LET cols == {j \in 1..Len(s) : s[j] = ":" /\ SpaceRun(s, j + 1) > 0}
             j == CHOOSE x \in cols : \A y \in cols : y <= x
         IN From(s, j + 1 + SpaceRun(s, j + 1))
    ELSE s

\* re.findall(r'\w+[\-\+]*', reported)
RECURSIVE FindAllGates(_, _)
FindAllGates(s, i) ==
  IF i > Len(s) THEN <<>>
  ELSE IF s[i] \in WordChars
    THEN LET w == Run(s, i, WordChars)
             n == w + Run(s, i + w, SignChars)
         IN <<SubSeq(s, i, i + n - 1)>> \o FindAllGates(s, i + n)
    ELSE FindAllGates(s, i + 1)

\* the first alternative that matches: the first non-zero match length
RECURSIVE FirstAlt(_)
FirstAlt(ls) ==
  IF ls = <<>> THEN 0 ELSE IF Head(ls) > 0 THEN Head(ls) ELSE FirstAlt(Tail(ls))

\* match lengths at index i (0: no match) of the delimiter patterns
LitLen(s, i, l) == IF MatchAt(s, l, i) THEN Len(l) ELSE 0
\* ,\s+
CommaSpaces(s, i) ==
  IF MatchAt(s, <<",">>, i) /\ SpaceRun(s, i + 1) > 0 THEN 1 + SpaceRun(s, i + 1) ELSE 0
\* ,\s*
CommaOptSpaces(s, i) == IF MatchAt(s, <<",">>, i) THEN 1 + SpaceRun(s, i + 1) ELSE 0
\* SpacedWord matching the word in either case
SpacedWordAnyCase(s, i, word) ==
  LET r1 == SpaceRun(s, i)
      r2 == SpaceRun(s, i + r1 + Len(word))
  IN IF r1 > 0 /\ MatchAt(CaseFold(s), CaseFold(word), i + r1) /\ r2 > 0
       THEN r1 + Len(word) + r2 ELSE 0

\* \s+word\s+
SpacedWord(s, i, word) ==
  LET r1 == SpaceRun(s, i)
      r2 == SpaceRun(s, i + r1 + Len(word))
  IN IF r1 > 0 /\ MatchAt(s, word, i + r1) /\ r2 > 0 THEN r1 + Len(word) + r2 ELSE 0
\* ;+\s*
Semicolons(s, i) ==
  LET n == Run(s, i, {";"}) IN IF n > 0 THEN n + SpaceRun(s, i + n) ELSE 0

\* the pattern each dialect hands to re.split
DelimLen(d, s, i) ==
  CASE d \in {2, 9, 10, 13, 14} -> LitLen(s, i, <<"/">>)
    [] d = 3 -> CommaSpaces(s, i)
    [] d = 4 -> SpacedWord(s, i, s_AND)
    [] d = 5 -> SpacedWord(s, i, s_and)
    [] d = 6 -> FirstAlt(<<LitLen(s, i, <<"/">>), CommaSpaces(s, i)>>)
    [] d = 7 -> FirstAlt(<<LitLen(s, i, <<"/">>), CommaOptSpaces(s, i)>>)
    [] d = 8 -> FirstAlt(<<Semicolons(s, i), LitLen(s, i, <<"/">>)>>)
    [] d = 11 -> FirstAlt(<<LitLen(s, i, <<"/">>), LitLen(s, i, <<",">>)>>)
    [] d = 12 -> FirstAlt(<<SpacedWord(s, i, s_AND), LitLen(s, i, s_uAND),
                            SpacedWord(s, i, <<"+">>)>>)
    [] d = 15 -> SpaceRun(s, i)
    [] OTHER -> FirstAlt(<<LitLen(s, i, <<"/">>), CommaOptSpaces(s, i),
                           SpacedWord(s, i, s_AND), SpacedWord(s, i, s_and)>>)

\* re.split(pattern, reported)
RECURSIVE ReSplit(_, _, _, _)
ReSplitAt(d, s, i, cur, n) ==
  IF n > 0 THEN <<cur>> \o ReSplit(d, s, i + n, <<>>)
  ELSE ReSplit(d, s, i + 1, Append(cur, s[i]))
ReSplit(d, s, i, cur) ==
  IF i > Len(s) THEN <<cur>> ELSE ReSplitAt(d, s, i, cur, DelimLen(d, s, i))

\* CX\w+\d+ at index i: a digit second or later in the word run after CX
CXwd(s, i) ==
  /\ MatchAt(s, s_CX, i)
  /\ \E k \in 2..Run(s, i + 2, WordChars) : s[i + 1 + k] \in Digits

\* the patterns r'(g1)(g2)' rewritten to r'\1/\2': whether group 1 is at index i
SlashAt(d, s, i) ==
  LET CDd == LitThen(s, i + 1, s_CD, Digits) IN
  CASE d = 6 -> /\ s[i] \in SignChars
                /\ (CDd \/ CXwd(s, i + 1) \/ LitThen(s, i + 1, s_CCR, Digits))
    [] d \in {7, 10} -> s[i] \in SignChars /\ CDd
    [] d = 9 -> s[i] = " " /\ CDd
    [] d = 11 -> /\ s[i] \in SignChars \cup {" "}
                 /\ \/ CDd
                    \/ LitThen(s, i + 1, s_CXCR, Digits)
                    \/ LitThen(s, i + 1, s_BCL, Digits)
                    \/ LitThen(s, i + 1, s_IF, WordChars)
                    \/ LitThen(s, i + 1, s_PD, Digits)
                    \/ LitThen(s, i + 1, s_IL, Digits)
                    \/ MatchAt(s, s_TNFa, i + 1)
    [] d = 13 -> s[i] \in SignChars /\ (CDd \/ LitThen(s, i + 1, s_Ig, WordChars))
    [] d = 14 -> /\ s[i] \in SignChars
                 /\ \/ CDd
                    \/ LitThen(s, i + 1, s_Ig, WordChars)
                    \/ LitThen(s, i + 1, s_IL, Digits)
                    \/ LitThen(s, i + 1, s_IF, WordChars)
                    \/ LitThen(s, i + 1, s_TNF, WordChars)
                    \/ LitThen(s, i + 1, s_Per, WordChars)
    [] OTHER -> FALSE

\* re.sub of such a pattern: a slash after every group 1 (group 2 holds word
\* characters only, so no match overlaps the next)
RECURSIVE InsertSlashes(_, _, _)
InsertSlashes(d, s, i) ==
  IF i > Len(s) THEN <<>>
  ELSE <<s[i]>> \o (IF SlashAt(d, s, i) THEN <<"/">> ELSE <<>>)
         \o InsertSlashes(d, s, i + 1)

\* re.sub(r',,+', r',', reported)
RECURSIVE CollapseCommas(_, _)
CollapseCommas(s, i) ==
  IF i > Len(s) THEN <<>>
  ELSE IF s[i] = "," THEN <<",">> \o CollapseCommas(s, i + Run(s, i, {","}))
  ELSE <<s[i]>> \o CollapseCommas(s, i + 1)

\* (\s+AND)?\s+R\d+ at index i
RGateAt(s, i) ==
  LET r == SpaceRun(s, i) IN
  /\ r > 0
  /\ \/ /\ MatchAt(s, s_AND, i + r)
        /\ SpaceRun(s, i + r + 3) > 0
        /\ LitThen(s, i + r + 3 + SpaceRun(s, i + r + 3), <<"R">>, Digits)
     \/ LitThen(s, i + r, <<"R">>, Digits)

\* re.sub(r'(\s+AND)?\s+R\d+.*$', r'', reported)
DropRGates(s) ==
  IF \E i \in 1..Len(s) : RGateAt(s, i)
    THEN LET i == CHOOSE x \in 1..Len(s) :
                    RGateAt(s, x) /\ \A y \in 1..(x - 1) : ~RGateAt(s, y)
         IN SubSeq(s, 1, i - 1)
    ELSE s

\* re.sub(r'\s+AND\s+', r' ', reported)
RECURSIVE AndToSpace(_, _)
AndToSpace(s, i) ==
  IF i > Len(s) THEN <<>>
  ELSE LET n == SpacedWord(s, i, s_AND)
       IN IF n > 0 THEN <<" ">> \o AndToSpace(s, i + n)
          ELSE <<s[i]>> \o AndToSpace(s, i + 1)

\* the rewrites a dialect applies to the text before it splits it
Rewritten(d, s) ==
  CASE d \in {6, 9, 10, 13, 14} -> InsertSlashes(d, s, 1)
    [] d = 7 -> InsertSlashes(7, Replace(CollapseCommas(s, 1), s_granulocyte,
                                          s_comma_granulocyte), 1)
    [] d = 11 -> InsertSlashes(11, Replace(s, s_high, s_high_sp), 1)
    [] d = 15 -> AndToSpace(DropRGates(s), 1)
    [] OTHER -> s

\* the list `gates` of the dialect's branch
RawGates(d, s) ==
  IF d = 1 THEN FindAllGates(s, 1) ELSE ReSplit(d, Rewritten(d, s), 1, <<>>)

(***************************************************************************)
(* tokenize (common.py): suffix canonicalization and the result            *)
(***************************************************************************)

\* One pass of `for suffixsyn in suffixsyns.keys()` from the k-th key on.  g is
\* the gate so far, n the number of rewrites applied so far.  The body ends in
\* `continue`, so the scan goes on after a rewrite.
RECURSIVE SynonymLoop(_, _, _, _, _)
SynonymLoop(symbs, syns, g, k, n) ==
  IF k > Len(syns) THEN [gate |-> g, rewrites |-> n, raised |-> FALSE]
  ELSE LET suffixsyn == syns[k][1] IN
       IF EndsWith(CaseFold(g), CaseFold(suffixsyn))
         \* re.sub('\s*' + re.escape(suffixsyn) + '$', symbol, gate, IGNORECASE)
         \* with symbol = suffixsymbs[suffixsyns[suffixsyn]], a KeyError when
         \* the name has no symbol
         THEN IF ~HasKey(symbs, syns[k][2])
                THEN [gate |-> g, rewrites |-> n, raised |-> TRUE]
                ELSE SynonymLoop(symbs, syns,
                                 RStrip(SubSeq(g, 1, Len(g) - Len(suffixsyn)))
                                   \o DictGet(symbs, syns[k][2]),
                                 k + 1, n + 1)
         ELSE SynonymLoop(symbs, syns, g, k + 1, n)

\* the spaces left in the gate
UnderscoredSpacesKept(looped) == looped

\* gate = re.sub(r' ', r'_', gate), after the loop
Underscored(looped) ==
  [gate |-> Replace(looped.gate, <<" ">>, <<"_">>),
   rewrites |-> looped.rewrites,
   raised |-> looped.raised]

\* the body of `for gate in gates` up to the test `if gate`
Canonical(symbs, syns, g) ==
  Underscored(SynonymLoop(symbs, syns, Replace(Strip(g), <<"ý">>, <<"-">>), 1, 0))

\* `if gate and gate not in tokenized`: a gate appended once only
RECURSIVE CollectUniqueFrom(_, _)
CollectUniqueFrom(cs, acc) ==
  IF cs = <<>> THEN acc
  ELSE CollectUniqueFrom(
         Tail(cs),
         IF Head(cs).gate # <<>> /\ \A i \in 1..Len(acc) : acc[i] # Head(cs).gate
           THEN Append(acc, Head(cs).gate) ELSE acc)
CollectUnique(cs) == CollectUniqueFrom(cs, <<>>)

\* Collect appending to the list an earlier call left, as with a list kept
\* between the calls
RECURSIVE CollectOntoFrom(_, _)
CollectOntoFrom(cs, acc) ==
  IF cs = <<>> THEN acc
  ELSE CollectOntoFrom(Tail(cs),
                       IF Head(cs).gate # <<>> THEN Append(acc, Head(cs).gate) ELSE acc)
CollectOnto(cs) == CollectOntoFrom(cs, tokenized)

\* `if gate: tokenized.append(gate)` over the canonical gates, in order
RECURSIVE Collect(_)
Collect(cs) ==
  IF cs = <<>> THEN <<>>
  ELSE (IF Head(cs).gate # <<>> THEN <<Head(cs).gate>> ELSE <<>>) \o Collect(Tail(cs))

\* `return tokenized`, with the branch taken, the raw gates split and the
\* rewrites applied to each; nothing is returned when a gate raised
TokenizeReturn(d, raw, canon, failed) ==
  [raised |-> failed,
   tokenized |-> IF failed THEN <<>> ELSE Collect(canon),
   dialect |-> d,
   rawgates |-> raw,
   rewrites |-> [i \in 1..Len(raw) |-> canon[i].rewrites]]

TokenizeCanonical(d, raw, canon) ==
  TokenizeReturn(d, raw, canon, \E i \in 1..Len(raw) : canon[i].raised)

\* the loop `for gate in gates`
TokenizeGates(d, symbs, syns, raw) ==
  TokenizeCanonical(d, raw, [i \in 1..Len(raw) |-> Canonical(symbs, syns, raw[i])])

\* the branch d of the ladder, on the text left by the colon rule
TokenizeDialect(d, symbs, syns, rep) ==
  TokenizeGates(d, symbs, syns, RawGates(d, ColonStrip(rep)))

\* tokenize(projname, suffixsymbs, suffixsyns, reported)
tokenize(pn, symbs, syns, rep) == TokenizeDialect(SelectDialect(pn), symbs, syns, rep)

(***************************************************************************)
(* extract_suffix_syns_symbs_maps (common.py)                              *)
(***************************************************************************)

\* d[key] = value: a new key goes last, a known key keeps its place
DictSet(d, key, value) ==
  IF HasKey(d, key)
    THEN [i \in 1..Len(d) |-> IF d[i][1] = key THEN <<key, value>> ELSE d[i]]
    ELSE Append(d, <<key, value>>)

\* `for synonym in row['Synonyms'].split(',')`: strip, skip the empty ones
RECURSIVE AddSynonyms(_, _, _)
AddSynonyms(syns, name, parts) ==
  IF parts = <<>> THEN syns
  ELSE LET synonym == Strip(Head(parts))
       IN AddSynonyms(IF synonym # <<>> THEN DictSet(syns, synonym, name) ELSE syns,
                      name, Tail(parts))

RECURSIVE extract_suffix_syns_symbs_maps(_, _, _)
extract_suffix_syns_symbs_maps(rows, symbs, syns) ==
  IF rows = <<>> THEN [suffixsymbs |-> symbs, suffixsyns |-> syns]
  ELSE LET row == Head(rows)
       IN extract_suffix_syns_symbs_maps(
            Tail(rows),
            DictSet(symbs, row.Name, row.Symbol),
            AddSynonyms(DictSet(syns, row.Name, row.Name), row.Name,
                        StrSplit(row.Synonyms, <<",">>)))

(***************************************************************************)
(* The tables read from tab-separated files (normalize.py main,            *)
(* batch_validate.py).  A file is its header and its lines, each a list of *)
(* cells; a row of csv.DictReader is a dict from the header's columns.     *)
(***************************************************************************)

\* the columns the builders read
Col ==
  [Name |-> <<"N","a","m","e">>, Symbol |-> <<"S","y","m","b","o","l">>, Synonyms |-> <<"S","y","n","o","n","y","m","s">>,
   Label |-> <<"L","a","b","e","l">>, OntologyID |-> <<"O","n","t","o","l","o","g","y"," ","I","D">>,
   ToxicSynonym |-> <<"t","o","x","i","c"," ","s","y","n","o","n","y","m">>, PreferredLabel |-> <<"P","r","e","f","e","r","r","e","d"," ","L","a","b","e","l">>]

\* csv.DictReader(f, delimiter='\t'): empty lines are skipped, a line
\* shorter than the header has None for the columns it lacks, the cells
\* beyond the header go under the key None
DictReader(f) ==
  LET lines == SelectSeq(f.lines, LAMBDA l : l # <<>>)
      RowOf(l) ==
        [k \in 1..Len(f.header) |->
           <<f.header[k], IF k <= Len(l) THEN l[k] ELSE None>>]
        \o (IF Len(l) > Len(f.header)
              THEN << <<None, SubSeq(l, Len(f.header) + 1, Len(l))>> >>
              ELSE <<>>)
  IN [i \in 1..Len(lines) |-> RowOf(lines[i])]

\* row[key] of some row is a KeyError: the rows share the header's columns
KeyErrorIn(rows, keys) ==
  rows # <<>> /\ \E k \in keys : ~HasKey(rows[1], k)

\* `for row in rows: gate_mappings[row['Label']] = row['Ontology ID']`
RECURSIVE MappingsLoop(_, _, _, _)
MappingsLoop(rows, key, value, acc) ==
  IF rows = <<>> THEN acc
  ELSE MappingsLoop(Tail(rows), key, value,
                    DictSet(acc, DictGet(Head(rows), key), DictGet(Head(rows), value)))

get_gate_mappings(mappings_file) ==
  LET rows == DictReader(mappings_file)
  IN IF KeyErrorIn(rows, {Col.Label, Col.OntologyID})
       THEN [raised |-> TRUE, table |-> <<>>]
       ELSE [raised |-> FALSE,
             table |-> MappingsLoop(rows, Col.Label, Col.OntologyID, <<>>)]

get_preferred(preferred_file) ==
  LET rows == DictReader(preferred_file)
  IN IF KeyErrorIn(rows, {Col.OntologyID, Col.PreferredLabel})
       THEN [raised |-> TRUE, table |-> <<>>]
       ELSE [raised |-> FALSE,
             table |-> MappingsLoop(rows, Col.OntologyID, Col.PreferredLabel, <<>>)]

\* `for row in rows: special_gates[row['Label']] = {...}`
RECURSIVE SpecialLoop(_, _)
SpecialLoop(rows, acc) ==
  IF rows = <<>> THEN acc
  ELSE SpecialLoop(Tail(rows),
                   DictSet(acc, DictGet(Head(rows), Col.Label),
                           [OntologyID |-> DictGet(Head(rows), Col.OntologyID),
                            Synonyms |-> DictGet(Head(rows), Col.Synonyms),
                            ToxicSynonym |-> DictGet(Head(rows), Col.ToxicSynonym)]))

get_special_gates(special_file) ==
  LET rows == DictReader(special_file)
  IN IF KeyErrorIn(rows, {Col.Label, Col.OntologyID, Col.Synonyms, Col.ToxicSynonym})
       THEN [raised |-> TRUE, table |-> <<>>]
       ELSE [raised |-> FALSE, table |-> SpecialLoop(rows, <<>>)]

\* rows = csv.DictReader(args.scale, delimiter='\t') and
\* extract_suffix_syns_symbs_maps(rows): row['Synonyms'].split of a row
\* without the cell is an AttributeError
get_suffix_maps(scale_file) ==
  LET rows == DictReader(scale_file)
  IN IF \/ KeyErrorIn(rows, {Col.Name, Col.Symbol, Col.Synonyms})
        \/ \E i \in 1..Len(rows) : DictGet(rows[i], Col.Synonyms) = None
       THEN [raised |-> TRUE, suffixsymbs |-> <<>>, suffixsyns |-> <<>>]
       ELSE [raised |-> FALSE] @@
            extract_suffix_syns_symbs_maps(
              [i \in 1..Len(rows) |->
                 [Name |-> DictGet(rows[i], Col.Name),
                  Symbol |-> DictGet(rows[i], Col.Symbol),
                  Synonyms |-> DictGet(rows[i], Col.Synonyms)]],
              <<>>, <<>>)


(***************************************************************************)
(* normalize (normalize.py)                                                *)
(***************************************************************************)
s_PR_long ==
  <<"h","t","t","p",":","/","/","p","u","r","l",".","o","b","o","l","i","b",
  "r","a","r","y",".","o","r","g","/","o","b","o","/","P","R","_">>
s_PR_short == <<"P","R",":">>
s_comma_space == <<","," ">>

IndexError == <<"IndexError">>

\* label.casefold() in [v.casefold() for v in field.split(', ')]
InFolded(label, field) ==
  LET parts == StrSplit(field, s_comma_space)
  IN \E i \in 1..Len(parts) : CaseFold(label) = CaseFold(parts[i])

\* the toxic synonym left out of the comparison
SpecialMatchNoToxic(label, key, val) ==
  /\ label # <<>>
  /\ \/ CaseFold(label) = CaseFold(key)
     \/ InFolded(label, val.Synonyms)

\* whether the entry key -> val of special_gates is kept by the comprehension
SpecialMatch(label, key, val) ==
  /\ label # <<>>
  /\ \/ CaseFold(label) = CaseFold(key)
     \/ InFolded(label, val.Synonyms)
     \/ InFolded(label, val.ToxicSynonym)

\* the list special_entries, in the order of special_gates.items()
RECURSIVE SpecialEntries(_, _)
SpecialEntries(label, special) ==
  IF special = <<>> THEN <<>>
  ELSE (IF SpecialMatch(label, Head(special)[1], Head(special)[2])
          THEN <<[label |-> Head(special)[1], ontid |-> Head(special)[2].OntologyID]>>
          ELSE <<>>)
       \o SpecialEntries(label, Tail(special))

\* special_entries[-1][field]: the last match instead of the first
FirstEntryLast(entries, field) ==
  IF entries = <<>> THEN IndexError ELSE entries[Len(entries)][field]

\* special_entries[0][field]
FirstEntry(entries, field) ==
  IF entries = <<>> THEN IndexError ELSE entries[1][field]

Bang(label) == <<"!">> \o label

\* the special gate consulted before the mapping
OntologyIdOrSpecialFirst(label, entries, ontology_id) ==
  IF entries # <<>> THEN FirstEntry(entries, "ontid")
  ELSE IF ontology_id = None \/ ontology_id = <<>> THEN Bang(label)
  ELSE ontology_id

\* special_entries[0] read without the test `if special_entries`
OntologyIdOrUnguarded(label, entries, ontology_id) ==
  IF ontology_id = None \/ ontology_id = <<>>
    THEN FirstEntry(entries, "ontid")
    ELSE ontology_id

\* ontology_id = gate_mappings.get(label)
\* if not ontology_id:
\*   ontology_id = special_entries[0]['ontid'] if special_entries else '!' + label
OntologyIdOr(label, entries, ontology_id) ==
  IF ontology_id = None \/ ontology_id = <<>>
    THEN IF entries # <<>> THEN FirstEntry(entries, "ontid") ELSE Bang(label)
    ELSE ontology_id

OntologyId(label, mappings, entries) ==
  OntologyIdOr(label, entries, DictGet(mappings, label))

\* the special gate's label consulted before the preferred table
PreferredLabelSpecialFirst(label, ontology_id, pref, entries) ==
  IF entries # <<>> THEN FirstEntry(entries, "label")
  ELSE IF HasKey(pref, ontology_id) THEN DictGet(pref, ontology_id)
  ELSE Bang(label)

\* preferred.get(ontology_id,
\*               special_entries[0]['label'] if special_entries else '!' + label)
PreferredLabel(label, ontology_id, pref, entries) ==
  IF HasKey(pref, ontology_id) THEN DictGet(pref, ontology_id)
  ELSE IF entries # <<>> THEN FirstEntry(entries, "label") ELSE Bang(label)

\* the two strings appended for a gate, and the warning printed (the number of
\* special entries found, 0 when none is printed)
NormalizeAppend(suffixsymb, entries, ontology_id, preferred_label) ==
  [raised |-> ontology_id = IndexError \/ preferred_label = IndexError,
   warning |-> IF Len(entries) > 1 THEN Len(entries) ELSE 0,
   preferred_label_gate |-> preferred_label \o suffixsymb,
   ontologized_gate |-> Replace(ontology_id, s_PR_long, s_PR_short) \o suffixsymb]

NormalizeResolved(label, suffixsymb, pref, entries, ontology_id) ==
  NormalizeAppend(suffixsymb, entries, ontology_id,
                  PreferredLabel(label, ontology_id, pref, entries))

NormalizeLabel(label, suffixsymb, mappings, pref, entries) ==
  NormalizeResolved(label, suffixsymb, pref, entries,
                    OntologyId(label, mappings, entries))

NormalizeSplit(sp, mappings, special, pref) ==
  NormalizeLabel(sp[1], sp[2], mappings, pref, SpecialEntries(sp[1], special))

\* the body of `for gate in gates`
NormalizeGate(g, mappings, special, pref, syms) ==
  NormalizeSplit(split_gate(g, syms), mappings, special, pref)

\* each result inserted at the front of its list instead of appended
NormalizeReturnReversed(gs, each) ==
  IF \E i \in 1..Len(gs) : each[i].raised
    THEN [raised |-> TRUE, returned |-> <<>>,
          warnings |-> [i \in 1..Len(gs) |-> each[i].warning]]
    ELSE [raised |-> FALSE,
          returned |->
            <<[i \in 1..Len(gs) |-> each[Len(gs) + 1 - i].preferred_label_gate],
              [i \in 1..Len(gs) |-> each[Len(gs) + 1 - i].ontologized_gate]>>,
          warnings |-> [i \in 1..Len(gs) |-> each[i].warning]]

\* NormalizeReturn with the two lists in the other order
NormalizeReturnSwapped(gs, each) ==
  IF \E i \in 1..Len(gs) : each[i].raised
    THEN [raised |-> TRUE, returned |-> <<>>,
          warnings |-> [i \in 1..Len(gs) |-> each[i].warning]]
    ELSE [raised |-> FALSE,
          returned |-> <<[i \in 1..Len(gs) |-> each[i].ontologized_gate],
                         [i \in 1..Len(gs) |-> each[i].preferred_label_gate]>>,
          warnings |-> [i \in 1..Len(gs) |-> each[i].warning]]

\* normalize(gates, gate_mappings, special_gates, preferred, symbols): the pair
\* it returns, in the order of the return statement, unless a gate raised
NormalizeReturn(gs, each) ==
  IF \E i \in 1..Len(gs) : each[i].raised
    THEN [raised |-> TRUE, returned |-> <<>>,
          warnings |-> [i \in 1..Len(gs) |-> each[i].warning]]
    ELSE [raised |-> FALSE,
          returned |-> <<[i \in 1..Len(gs) |-> each[i].preferred_label_gate],
                         [i \in 1..Len(gs) |-> each[i].ontologized_gate]>>,
          warnings |-> [i \in 1..Len(gs) |-> each[i].warning]]

normalize(gs, mappings, special, pref, syms) ==
  NormalizeReturn(gs, [i \in 1..Len(gs) |->
                         NormalizeGate(gs[i], mappings, special, pref, syms)])

(***************************************************************************)
(* The level tables (common.py) and the maps of the server (server.py).    *)
(***************************************************************************)

\* get_level_names()
level_names ==
  << <<<<"+","+">>, <<"h","i","g","h">>>>, <<<<"+","~">>, <<"m","e","d","i","u","m">>>>, <<<<"+","-">>, <<"l","o","w">>>>,
     <<<<"+">>, <<"p","o","s","i","t","i","v","e">>>>, <<<<"-">>, <<"n","e","g","a","t","i","v","e">>>> >>

s_obo == <<"h","t","t","p",":","/","/","p","u","r","l",".","o","b","o","l","i","b","r","a","r","y",".","o","r","g","/","o","b","o","/">>
s_has_part == s_obo \o <<"R","O","_","0","0","0","2","1","0","4">>
s_lacks_part == s_obo \o <<"c","l","#","l","a","c","k","s","_","p","l","a","s","m","a","_","m","e","m","b","r","a","n","e","_","p","a","r","t">>
s_has_high == s_obo \o <<"c","l","#","h","a","s","_","h","i","g","h","_","p","l","a","s","m","a","_","m","e","m","b","r","a","n","e","_","a","m","o","u","n","t">>
s_has_low == s_obo \o <<"c","l","#","h","a","s","_","l","o","w","_","p","l","a","s","m","a","_","m","e","m","b","r","a","n","e","_","a","m","o","u","n","t">>

\* get_level_iris(): '+~' and '+' map to the same IRI
level_iris ==
  << <<<<"+","+">>, s_has_high>>, <<<<"+","~">>, s_has_part>>, <<<<"+","-">>, s_has_low>>,
     <<<<"+">>, s_has_part>>, <<<<"-">>, s_lacks_part>> >>

\* {v: k for k, v in d.items()}
RECURSIVE ReverseMap(_, _)
ReverseMap(d, acc) ==
  IF d = <<>> THEN acc
  ELSE ReverseMap(Tail(d), DictSet(acc, Head(d)[2], Head(d)[1]))

\* get_iri_levels()
iri_levels == ReverseMap(level_iris, <<>>)

\* get_basic_iri_labels()
basic_iri_labels ==
  << <<s_has_part, <<"h","a","s"," ","p","l","a","s","m","a"," ","m","e","m","b","r","a","n","e"," ","p","a","r","t">>>>,
     <<s_lacks_part, <<"l","a","c","k","s"," ","p","l","a","s","m","a"," ","m","e","m","b","r","a","n","e"," ","p","a","r","t">>>>,
     <<s_has_high, <<"h","a","s"," ","h","i","g","h"," ","p","l","a","s","m","a"," ","m","e","m","b","r","a","n","e"," ","a","m","o","u","n","t">>>>,
     <<s_has_low, <<"h","a","s"," ","l","o","w"," ","p","l","a","s","m","a"," ","m","e","m","b","r","a","n","e"," ","a","m","o","u","n","t">>>> >>

(***************************************************************************)
(* server.py: gates and cells.  A gate dict is a record; a key the dict    *)
(* does not hold has the value Absent; the key conflict, which only ever   *)
(* holds True, is FALSE when the dict does not hold it.  The field         *)
(* `shared` is the identity of the dict: 0 for a dict the call created, k  *)
(* for the k-th dict of the list iri_gates holds for the cell.             *)
(***************************************************************************)
Absent == <<"absent">>

\* `not x` of a string or None
Falsy(x) == x = None \/ x = <<>>

decorate_gate(kind, level) ==
  [kind |-> IF ~Falsy(kind) /\ ~StartsWith(kind, <<"h","t","t","p">>)
              THEN <<"?","g","a","t","e","=">> \o kind ELSE kind,
   kind_recognized |-> HasKey(iri_labels, kind),
   kind_label |-> IF HasKey(iri_labels, kind) THEN DictGet(iri_labels, kind) ELSE Absent,
   level |-> level,
   level_recognized |-> HasKey(iri_labels, level),
   level_label |-> IF HasKey(iri_labels, level) THEN DictGet(iri_labels, level) ELSE Absent,
   gate |-> Absent, kind_name |-> Absent, level_name |-> Absent,
   conflict |-> FALSE, shared |-> 0]

\* re.sub('\s*\[.*\]\s*', '', kind_name): the greedy .* runs from the first
\* "[" to the last "]", the whitespace around them goes too
DropComment(s) ==
  LET \* index of the first "[" and of the last "]" of s, 0 when there is none
      f == IF \E i \in 1..Len(s) : s[i] = "["
             THEN CHOOSE i \in 1..Len(s) : s[i] = "[" /\ \A k \in 1..(i - 1) : s[k] # "["
             ELSE 0
      l == IF \E i \in 1..Len(s) : s[i] = "]"
             THEN CHOOSE i \in 1..Len(s) : s[i] = "]" /\ \A k \in (i + 1)..Len(s) : s[k] # "]"
             ELSE 0
  IN IF f = 0 \/ l < f THEN s
     ELSE RStrip(SubSeq(s, 1, f - 1)) \o From(s, l + 1 + SpaceRun(s, l + 1))

process_gate(gate_string) ==
  LET looped == SynonymLoop(suffixsymbs, suffixsyns, gate_string, 1, 0)
      sp == split_gate(looped.gate, Values(suffixsymbs))
      kind_name == DropComment(sp[1])
      kind == IF HasKey(synonym_iris, CaseFold(kind_name))
                THEN DictGet(synonym_iris, CaseFold(kind_name)) ELSE None
      level_name == IF sp[2] = <<>> THEN <<"+">> ELSE sp[2]
      level == IF HasKey(level_iris, level_name)
                 THEN DictGet(level_iris, level_name) ELSE None
  IN IF looped.raised \/ ~HasKey(level_names, level_name)
       THEN [raised |-> TRUE, gate |-> None, has_errors |-> FALSE]
       ELSE [raised |-> FALSE,
             gate |-> [decorate_gate(kind, level) EXCEPT
                         !.gate = looped.gate,
                         !.kind_name = kind_name,
                         !.level_name = DictGet(level_names, level_name)],
             has_errors |-> Falsy(kind)]

\* the one row of csv.reader([field], delimiter=',', skipinitialspace=True)
\* for a field without quote characters: an empty field has no gates, the
\* spaces (not the tabs) after a comma are skipped
RECURSIVE SkipSpaces(_)
SkipSpaces(s) == IF s # <<>> /\ Head(s) = " " THEN SkipSpaces(Tail(s)) ELSE s
CsvRow(field) ==
  IF field = <<>> THEN <<>>
  ELSE LET parts == StrSplit(field, <<",">>)
       IN [i \in 1..Len(parts) |-> SkipSpaces(parts[i])]

\* str.strip(chars)
RECURSIVE StripChars(_, _)
StripChars(s, chars) ==
  IF s # <<>> /\ Head(s) \in chars THEN StripChars(Tail(s), chars)
  ELSE IF s # <<>> /\ s[Len(s)] \in chars
    THEN StripChars(SubSeq(s, 1, Len(s) - 1), chars)
  ELSE s

\* re.sub("^(\"|\')|(\"|\')$", '', s): one quotation mark off each end
Unquote(s) ==
  LET t == IF s # <<>> /\ Head(s) \in {"\"", "'"} THEN Tail(s) ELSE s
  IN IF t # <<>> /\ t[Len(t)] \in {"\"", "'"} THEN SubSeq(t, 1, Len(t) - 1) ELSE t

\* re.sub("\s\s+", " ", s): a run of two or more whitespace characters
\* becomes one space
RECURSIVE CollapseSpaces(_)
CollapseSpaces(s) ==
  IF s = <<>> THEN <<>>
  ELSE IF SpaceRun(s, 1) >= 2
    THEN <<" ">> \o CollapseSpaces(From(s, SpaceRun(s, 1) + 1))
    ELSE <<Head(s)>> \o CollapseSpaces(Tail(s))

\* s.split('&', maxsplit=1) of a string that holds an '&'
SplitOnce(s) ==
  LET i == CHOOSE k \in 1..Len(s) : s[k] = "&" /\ \A j \in 1..(k - 1) : s[j] # "&"
  IN <<SubSeq(s, 1, i - 1), From(s, i + 1)>>

\* `for gate_string in gate_strings: process_gate(...); cell_gates.append(gate)`
RECURSIVE CellGatesLoop(_, _)
CellGatesLoop(gate_strings, cell_gates) ==
  IF gate_strings = <<>> THEN [raised |-> FALSE, cell_gates |-> cell_gates]
  ELSE LET p == process_gate(StripChars(Head(gate_strings), {"'"}))
       IN IF p.raised THEN [raised |-> TRUE, cell_gates |-> <<>>]
          ELSE CellGatesLoop(Tail(gate_strings), Append(cell_gates, p.gate))

get_cell_name_and_gates(field) ==
  IF \E i \in 1..Len(field) : field[i] = "&"
    THEN LET cells_fields == SplitOnce(field)
             cell_gating == Strip(cells_fields[2])
             looped == CellGatesLoop(CsvRow(cell_gating), <<>>)
         IN [cell_name |-> CollapseSpaces(Unquote(Strip(cells_fields[1]))),
             cell_gates |-> looped.cell_gates,
             raised |-> looped.raised]
    ELSE [cell_name |-> StripChars(Strip(field), {"\"", "'"}),
          cell_gates |-> <<>>, raised |-> FALSE]

s_CL_long == s_obo \o <<"C","L","_">>

get_cell_iri(cell_name) ==
  IF HasKey(synonym_iris, CaseFold(cell_name))
    THEN DictGet(synonym_iris, CaseFold(cell_name))
  ELSE IF HasKey(iri_labels, cell_name) THEN cell_name
  ELSE LET \* re.sub('^CL:', 'http://purl.obolibrary.org/obo/CL_', cell_name)
           iri == IF StartsWith(cell_name, <<"C","L",":">>)
                    THEN s_CL_long \o From(cell_name, 4)
                    ELSE cell_name
       IN IF HasKey(iri_labels, iri) THEN iri ELSE None

\* cell_gates holds the dicts that end cell['results']: the list is kept as
\* the positions of its dicts in cell['results']
get_cell_core_info(cell_gates, cell_iri) ==
  LET known == HasKey(iri_gates, cell_iri)
      parent == IF known /\ HasKey(iri_parents, cell_iri)
                  THEN DictGet(iri_parents, cell_iri) ELSE Absent
  IN [recognized |-> known,
      conflicts |-> FALSE,
      has_cell_gates |-> Len(cell_gates) > 0,
      cell_gates |-> cell_gates,
      iri |-> IF known THEN cell_iri ELSE Absent,
      label |-> IF known /\ HasKey(iri_labels, cell_iri)
                  THEN DictGet(iri_labels, cell_iri) ELSE Absent,
      parent |-> parent,
      parent_label |-> IF parent # Absent /\ HasKey(iri_labels, parent)
                         THEN DictGet(iri_labels, parent) ELSE Absent]

\* the cell and the gating of a call that raised, and before the first call
NoCell ==
  [core_info |-> [recognized |-> FALSE, conflicts |-> FALSE, has_cell_gates |-> FALSE,
                  cell_gates |-> <<>>, iri |-> Absent, label |-> Absent,
                  parent |-> Absent, parent_label |-> Absent],
   results |-> <<>>]
NoGating == [results |-> <<>>, conflicts |-> <<>>, has_errors |-> FALSE]

\* iri_gates[cell_iri] of a cell IRI the map does not hold is a KeyError
\* get_gate_info_for_cell returning the dicts of iri_gates themselves, with
\* the information written into them, and not new dicts
get_gate_info_for_cell_in_place(cell_iri) ==
  IF Falsy(cell_iri) THEN [raised |-> FALSE, cell_results |-> <<>>]
  ELSE IF ~HasKey(iri_gates, cell_iri) THEN [raised |-> TRUE, cell_results |-> <<>>]
  ELSE LET entries == DictGet(iri_gates, cell_iri)
           CellResult(k) ==
             LET decorated == [decorate_gate(entries[k].kind, entries[k].level)
                                 EXCEPT !.shared = k]
             IN IF HasKey(iri_levels, decorated.level)
                  THEN [decorated EXCEPT
                          !.level_name = DictGet(level_names,
                                                 DictGet(iri_levels, decorated.level))]
                  ELSE decorated
       IN [raised |-> FALSE,
           cell_results |-> [k \in 1..Len(entries) |-> CellResult(k)]]

get_gate_info_for_cell(cell_iri) ==
  IF Falsy(cell_iri) THEN [raised |-> FALSE, cell_results |-> <<>>]
  ELSE IF ~HasKey(iri_gates, cell_iri) THEN [raised |-> TRUE, cell_results |-> <<>>]
  ELSE LET entries == DictGet(iri_gates, cell_iri)
           \* the body of `for gate in iri_gates[cell_iri]`
           CellResult(entry) ==
             LET decorated == decorate_gate(entry.kind, entry.level)
             IN IF HasKey(iri_levels, decorated.level)
                  THEN [decorated EXCEPT
                          !.level_name = DictGet(level_names,
                                                 DictGet(iri_levels, decorated.level))]
                  ELSE decorated
       IN [raised |-> FALSE,
           cell_results |-> [k \in 1..Len(entries) |-> CellResult(entries[k])]]

parse_cells_field(field) ==
  LET named == get_cell_name_and_gates(field)
      cell_iri == get_cell_iri(named.cell_name)
      info == get_gate_info_for_cell(cell_iri)
      n == Len(info.cell_results)
  IN IF named.raised \/ info.raised THEN [raised |-> TRUE, cell |-> NoCell]
     ELSE [raised |-> FALSE,
           cell |-> [core_info |->
                       get_cell_core_info([k \in 1..Len(named.cell_gates) |-> n + k],
                                          cell_iri),
                     results |-> info.cell_results \o named.cell_gates]]

\* copy.deepcopy(gate) with the two keys of a conflict: a dict of its own
ConflictRecord(g, cell_result) ==
  [cell_level |-> cell_result.level, cell_level_name |-> cell_result.level_name]
    @@ [g EXCEPT !.shared = 0]

\* ConflictLoop comparing the names of the levels, not their identifiers
RECURSIVE ConflictLoopByName(_, _, _, _)
ConflictLoopByName(g, c, j, conflicts) ==
  IF j > Len(c.results)
    THEN [raised |-> FALSE, gate |-> g, cell |-> c, conflicts |-> conflicts]
  ELSE IF g.kind = c.results[j].kind /\ g.level_name # c.results[j].level_name
    THEN ConflictLoopByName([g EXCEPT !.conflict = TRUE],
                            [c EXCEPT !.results[j].conflict = TRUE,
                                      !.core_info.conflicts = TRUE],
                            j + 1,
                            Append(conflicts,
                                   ConflictRecord([g EXCEPT !.conflict = TRUE],
                                                  c.results[j])))
  ELSE ConflictLoopByName(g, c, j + 1, conflicts)

\* `for cell_result in cell['results']` from the j-th result on, for one
\* gate of the gates field; c is the cell, conflicts is gating['conflicts']
RECURSIVE ConflictLoop(_, _, _, _)
ConflictLoop(g, c, j, conflicts) ==
  IF j > Len(c.results)
    THEN [raised |-> FALSE, gate |-> g, cell |-> c, conflicts |-> conflicts]
  ELSE IF g.kind = c.results[j].kind /\ g.level # c.results[j].level
    THEN LET flagged == [g EXCEPT !.conflict = TRUE]
             marked == [c EXCEPT !.results[j].conflict = TRUE,
                                 !.core_info.conflicts = TRUE]
         IN \* cell_result['level_name'] of a dict without the key is a KeyError
            IF c.results[j].level_name = Absent
              THEN [raised |-> TRUE, gate |-> flagged, cell |-> marked,
                    conflicts |-> conflicts]
              ELSE ConflictLoop(flagged, marked, j + 1,
                                Append(conflicts, ConflictRecord(flagged, c.results[j])))
  ELSE ConflictLoop(g, c, j + 1, conflicts)

\* `for gate_string in gate_strings` of parse_gates_field
RECURSIVE GatingLoop(_, _, _)
GatingLoop(gate_strings, c, sofar) ==
  IF gate_strings = <<>> THEN [raised |-> FALSE, gating |-> sofar, cell |-> c]
  ELSE LET p == process_gate(Head(gate_strings))
           looped == ConflictLoop(p.gate, c, 1, sofar.conflicts)
       IN IF p.raised THEN [raised |-> TRUE, gating |-> NoGating, cell |-> c]
          ELSE IF looped.raised
            THEN [raised |-> TRUE, gating |-> NoGating, cell |-> looped.cell]
          ELSE GatingLoop(Tail(gate_strings), looped.cell,
                          [results |-> Append(sofar.results, looped.gate),
                           conflicts |-> looped.conflicts,
                           has_errors |-> sofar.has_errors \/ p.has_errors])

parse_gates_field(field, c) ==
  GatingLoop(CsvRow(field), c,
             [results |-> <<>>, conflicts |-> <<>>, has_errors |-> FALSE])

\* iri_gates after a call that left the cell c: a dict of the map that
\* cell['results'] shares is the dict the call wrote to, which holds kind and
\* level and the keys the call set
WrittenThrough(c) ==
  LET Visible(g) ==
        [f \in {"kind", "level"}
                \cup (IF g.level_name # Absent THEN {"level_name"} ELSE {})
                \cup (IF g.conflict THEN {"conflict"} ELSE {}) |-> g[f]]
  IN
  IF c.core_info.iri = Absent THEN iri_gates
  ELSE [i \in 1..Len(iri_gates) |->
          IF iri_gates[i][1] # c.core_info.iri THEN iri_gates[i]
          ELSE <<iri_gates[i][1],
                 [k \in 1..Len(iri_gates[i][2]) |->
                    IF \E j \in 1..Len(c.results) : c.results[j].shared = k
                      THEN Visible(c.results[CHOOSE j \in 1..Len(c.results) :
                                               c.results[j].shared = k])
                      ELSE iri_gates[i][2][k]]>>]

(***************************************************************************)
(* validate (validate.py): one marker of one line of the file to validate, *)
(* compared with the gates the cell type expects.  A message is modelled   *)
(* by its level and its text; its table and its cell reference number the  *)
(* file and the line.                                                      *)
(***************************************************************************)

get_clean_marker(name) ==
  IF EndsWith(name, <<"+","+">>)
    THEN <<SubSeq(name, 1, Len(name) - 2), <<"h","i","g","h">>>>
  ELSE IF EndsWith(name, <<"+","-">>)
    THEN <<SubSeq(name, 1, Len(name) - 2), <<"l","o","w">>>>
  ELSE IF EndsWith(name, <<"+">>)
    THEN <<SubSeq(name, 1, Len(name) - 1), <<"p","o","s","i","t","i","v","e">>>>
  ELSE IF EndsWith(name, <<"-">>)
    THEN <<SubSeq(name, 1, Len(name) - 1), <<"n","e","g","a","t","i","v","e">>>>
  ELSE <<name, None>>

\* HighLow without low
HighOnly == {<<"h","i","g","h">>}

\* the levels validate tells apart from positive
HighLow == {<<"h","i","g","h">>, <<"l","o","w">>}

\* the body of `for marker_name in ...` of validate: the messages appended
\* to errors for one marker
validate_marker(marker, names, expected) ==
  LET clean == get_clean_marker(marker)
      marker_name_clean == clean[1]
      level == clean[2]
      \* get_pr_id: gate_names.get(name, None)
      pr_id == DictGet(names, marker_name_clean)
      expected_level == DictGet(expected, pr_id)
  IN IF Falsy(pr_id)
       THEN << [level |-> "ERROR",
                message |-> <<"'">> \o marker \o
                  <<"'"," ","m","u","s","t"," ","b","e"," ","a"," ","n","a","m","e"," ","o","r"," ","s","y","n","o","n","y","m"," ","f","r","o","m"," ","P","r","o","t","e","i","n"," ","O","n","t","o","l","o","g","y">>] >>
     ELSE IF ~HasKey(expected, pr_id) THEN <<>>
     ELSE IF level = <<"p","o","s","i","t","i","v","e">> /\ expected_level \in HighLow
       THEN << [level |-> "INFO",
                message |-> <<"F","o","r"," ","t","h","i","s"," ","c","e","l","l"," ","p","o","p","u","l","a","t","i","o","n",","," ">> \o marker_name_clean
                  \o <<" ","h","a","s"," ">> \o expected_level \o <<" ","e","x","p","r","e","s","s","i","o","n">>] >>
     ELSE IF level \in HighLow /\ expected_level = <<"p","o","s","i","t","i","v","e">>
       THEN << [level |-> "INFO",
                message |-> <<"F","o","r"," ","t","h","i","s"," ","c","e","l","l"," ","p","o","p","u","l","a","t","i","o","n",","," ">> \o marker_name_clean
                  \o <<" ","i","s"," ","p","o","s","i","t","i","v","e",","," ","b","u","t"," ","n","o","t"," ">> \o level] >>
     ELSE IF level # expected_level
       THEN << [level |-> "ERROR",
                message |-> <<"F","o","r"," ","t","h","i","s"," ","c","e","l","l"," ","p","o","p","u","l","a","t","i","o","n",","," ">> \o marker_name_clean
                  \o <<" ","m","u","s","t"," ","b","e"," ">> \o expected_level] >>
     ELSE <<>>


(***************************************************************************)
(* normalize.py main: the body of `for row in rows`.  A row is a record of *)
(* its columns; a column main has not written yet is Absent.               *)
(***************************************************************************)

\* sep.join(ss)
RECURSIVE Join(_, _)
Join(ss, sep) ==
  IF ss = <<>> THEN <<>>
  ELSE IF Len(ss) = 1 THEN ss[1]
  ELSE ss[1] \o sep \o Join(Tail(ss), sep)

\* the CL definition: for the gates of iri_gates[cell_type] with a preferred
\* label, the label and the symbol of the level
RECURSIVE PopulationGates(_, _)
PopulationGates(entries, pref) ==
  IF entries = <<>> THEN [raised |-> FALSE, gates |-> <<>>]
  ELSE LET preferred_label == DictGet(pref, Head(entries).kind)
           rest == PopulationGates(Tail(entries), pref)
       IN IF Falsy(preferred_label) THEN rest
          \* iri_levels[gate['level']] of a level that is no key is a KeyError
          ELSE IF ~HasKey(iri_levels, Head(entries).level) \/ rest.raised
            THEN [raised |-> TRUE, gates |-> <<>>]
          ELSE [raised |-> FALSE,
                gates |-> <<preferred_label \o DictGet(iri_levels, Head(entries).level)>>
                          \o rest.gates]

\* RowConflicts comparing the levels themselves
RowConflictsByLevel(cell_gates, preferized_gates, extra_gates, syms) ==
  LET m == Len(preferized_gates)
      Population(n) == cell_gates[((n - 1) \div m) + 1]
      Definition(n) == preferized_gates[((n - 1) % m) + 1]
      Conflicting(n) ==
        LET p == split_gate(Population(n), syms)
            d == split_gate(Definition(n), syms)
        IN p[1] = d[1] /\ p[2] # d[2]
      found == SelectSeq([n \in 1..(Len(cell_gates) * m) |-> n], Conflicting)
      last == found[Len(found)]
  IN [conflicts |->
        [k \in 1..Len(found) |->
           Population(found[k]) \o <<"/">> \o split_gate(Definition(found[k]), syms)[2]],
      conflict_type |->
        IF found = <<>> THEN <<>>
        ELSE IF \E k \in 1..Len(extra_gates) : extra_gates[k] = Population(last)
          THEN <<"c","o","n","f","l","i","c","t"," ","w","i","t","h"," ","e","x","t","r","a">>
          ELSE <<"c","o","n","f","l","i","c","t"," ","w","i","t","h"," ","C","L"," ","d","e","f","i","n","i","t","i","o","n">>]

\* the conflicts of the gates of the cell with the gates of the definition:
\* the same label, one level '-' and the other not
RowConflicts(cell_gates, preferized_gates, extra_gates, syms) ==
  LET m == Len(preferized_gates)
      Population(n) == cell_gates[((n - 1) \div m) + 1]
      Definition(n) == preferized_gates[((n - 1) % m) + 1]
      Conflicting(n) ==
        LET p == split_gate(Population(n), syms)
            d == split_gate(Definition(n), syms)
        IN p[1] = d[1] /\ ((p[2] # <<"-">>) # (d[2] # <<"-">>))
      found == SelectSeq([n \in 1..(Len(cell_gates) * m) |-> n], Conflicting)
      last == found[Len(found)]
  IN [conflicts |->
        [k \in 1..Len(found) |->
           Population(found[k]) \o <<"/">> \o split_gate(Definition(found[k]), syms)[2]],
      conflict_type |->
        IF found = <<>> THEN <<>>
        ELSE IF \E k \in 1..Len(extra_gates) : extra_gates[k] = Population(last)
          THEN <<"c","o","n","f","l","i","c","t"," ","w","i","t","h"," ","e","x","t","r","a">>
          ELSE <<"c","o","n","f","l","i","c","t"," ","w","i","t","h"," ","C","L"," ","d","e","f","i","n","i","t","i","o","n">>]

\* the experiments of the file args.excluded
excluded_experiments == {<<"E","X","P","2">>}

\* the row after the body of the loop, or the row as it was when the body
\* raised or skipped it
main_loop_body(r, symbs, syns, mappings, special, pref) ==
  LET syms == Values(symbs)
      extra == Strip(r.extra)
      extra_tokens == tokenize(<<"S","t","a","n","d","a","r","d">>, symbs, syns, extra)
      extra_normal == normalize(extra_tokens.tokenized, mappings, special, pref, syms)
      extra_preferized == extra_normal.returned[1]
      extra_ontologized == extra_normal.returned[2]
      cl_term == IF r.CL_term = None THEN <<>> ELSE r.CL_term
      preferred_name ==
        IF cl_term # <<>> /\ extra_preferized # <<>>
          THEN cl_term \o <<" ","&"," ">> \o Join(extra_preferized, s_comma_space)
          ELSE cl_term
      cell_type == IF StartsWith(r.CL_ID, <<"C","L",":">>)
                     THEN s_CL_long \o From(r.CL_ID, 4) ELSE r.CL_ID
      population == IF cell_type # <<>> /\ HasKey(iri_gates, cell_type)
                      THEN PopulationGates(DictGet(iri_gates, cell_type), pref)
                      ELSE [raised |-> FALSE, gates |-> <<>>]
      cell_gates == population.gates \o extra_preferized
      rep == StripChars(StripChars(r.POPULATION_DEFNITION_REPORTED, {"\""}), {"'"})
      tokens == tokenize(r.NAME, symbs, syns, rep)
      normal == normalize(tokens.tokenized, mappings, special, pref, syms)
      found == RowConflicts(cell_gates, normal.returned[1], extra_preferized, syms)
  IN IF r.EXPERIMENT_ACCESSION \in excluded_experiments
       THEN [raised |-> FALSE, written |-> FALSE, row |-> r]
     ELSE IF extra_tokens.raised \/ extra_normal.raised \/ population.raised
             \/ tokens.raised \/ normal.raised
       THEN [raised |-> TRUE, written |-> FALSE, row |-> r]
     ELSE [raised |-> FALSE, written |-> TRUE,
           row |-> [r EXCEPT
             !.Population_preferred_name = preferred_name,
             !.CL_definition = Join(population.gates, s_comma_space),
             !.Gating_tokenized = Join(tokens.tokenized, s_comma_space),
             \* written before the second call of normalize: the gates of `extra`
             !.Gating_mapped_to_ontologies = Join(extra_ontologized, s_comma_space),
             !.Gating_preferred_definition = Join(normal.returned[1], s_comma_space),
             !.Conflicts = Join(found.conflicts, s_comma_space),
             !.Conflict_type = found.conflict_type]]


(***************************************************************************)
(* The report and its summary (report.py, summarize.py).                   *)
(***************************************************************************)

\* the keys of the rows and of the counters
Key ==
  [NAME |-> <<"N","A","M","E">>, Mapped |-> <<"G","a","t","i","n","g"," ","m","a","p","p","e","d"," ","t","o"," ","o","n","t","o","l","o","g","i","e","s">>,
   MATCHED_GATES |-> <<"M","A","T","C","H","E","D","_","G","A","T","E","S">>, TOTAL_GATES |-> <<"T","O","T","A","L","_","G","A","T","E","S">>,
   MATCHED_POPULATIONS |-> <<"M","A","T","C","H","E","D","_","P","O","P","U","L","A","T","I","O","N","S">>,
   TOTAL_POPULATIONS |-> <<"T","O","T","A","L","_","P","O","P","U","L","A","T","I","O","N","S">>, TOTAL |-> <<"T","O","T","A","L">>]

\* ;\s+ at index i: its match length, 0 without a match
SemicolonSpaces(s, i) ==
  IF MatchAt(s, <<";">>, i) /\ SpaceRun(s, i + 1) > 0 THEN 1 + SpaceRun(s, i + 1) ELSE 0

\* re.split(';\s+', normalized)
RECURSIVE SplitIds(_, _, _)
SplitIds(s, i, cur) ==
  IF i > Len(s) THEN <<cur>>
  ELSE IF SemicolonSpaces(s, i) > 0
    THEN <<cur>> \o SplitIds(s, i + SemicolonSpaces(s, i), <<>>)
  ELSE SplitIds(s, i + 1, Append(cur, s[i]))

\* IsMatched counting every gate
IsMatchedAlways(id) == TRUE

\* `not i.startswith('!')`
IsMatched(id) == ~StartsWith(id, <<"!">>)

\* the loop `for i in ids`: matched_gates
RECURSIVE MatchedGates(_)
MatchedGates(ids) ==
  IF ids = <<>> THEN 0
  ELSE (IF IsMatched(Head(ids)) THEN 1 ELSE 0) + MatchedGates(Tail(ids))

\* generate_report_row(row): whether it raised, whether it returned None, and
\* the dict `row` after the call, which is the dict it returns
generate_report_row(row) ==
  IF ~HasKey(row, Key.Mapped)
    THEN [raised |-> TRUE, returned_none |-> FALSE, row |-> row]
  ELSE IF Falsy(DictGet(row, Key.Mapped))
    THEN [raised |-> FALSE, returned_none |-> TRUE, row |-> row]
  ELSE LET ids == SplitIds(DictGet(row, Key.Mapped), 1, <<>>)
       IN [raised |-> FALSE, returned_none |-> FALSE,
           row |-> DictSet(DictSet(row, Key.MATCHED_GATES, MatchedGates(ids)),
                           Key.TOTAL_GATES, Len(ids))]

\* centers[name][counter], 0 for a key the defaultdict does not hold
Counter(info, name, counter) ==
  IF HasKey(info, name) /\ HasKey(DictGet(info, name), counter)
    THEN DictGet(DictGet(info, name), counter) ELSE 0

\* centers[name][counter] += 1
Increment(info, name, counter) ==
  DictSet(info, name,
          DictSet(IF HasKey(info, name) THEN DictGet(info, name) ELSE <<>>,
                  counter, Counter(info, name, counter) + 1))

\* centers[this_center_name][counter] += 1; centers['TOTAL'][counter] += 1
Augment(info, name, counter) ==
  Increment(Increment(info, name, counter), Key.TOTAL, counter)

\* the loop `for gate in gates` of get_centers_info
RECURSIVE CenterGatesLoop(_, _, _)
CenterGatesLoop(gs, name, info) ==
  IF gs = <<>> THEN info
  ELSE CenterGatesLoop(
         Tail(gs), name,
         IF StartsWith(Head(gs), <<"!">>)
           THEN Augment(info, name, Key.TOTAL_GATES)
           ELSE Augment(Augment(info, name, Key.TOTAL_GATES),
                        name, Key.MATCHED_GATES))

\* the body of `for row in report_rows`
CenterRow(row, info) ==
  LET name == DictGet(row, Key.NAME)
      gs == SplitIds(DictGet(row, Key.Mapped), 1, <<>>)
      perfect == \A k \in 1..Len(gs) : ~StartsWith(gs[k], <<"!">>)
      counted == Augment(CenterGatesLoop(gs, name, info), name,
                         Key.TOTAL_POPULATIONS)
  IN IF perfect THEN Augment(counted, name, Key.MATCHED_POPULATIONS) ELSE counted

\* get_centers_info(report_rows); a row without one of the two columns is a
\* KeyError, a column that holds None a TypeError of re.split
RECURSIVE CenterRowsLoop(_, _)
CenterRowsLoop(rows, info) ==
  IF rows = <<>> THEN [raised |-> FALSE, centers |-> info]
  ELSE IF \/ ~HasKey(Head(rows), Key.NAME) \/ ~HasKey(Head(rows), Key.Mapped)
          \/ DictGet(Head(rows), Key.Mapped) = None
    THEN [raised |-> TRUE, centers |-> info]
  ELSE CenterRowsLoop(Tail(rows), CenterRow(Head(rows), info))

get_centers_info(rows) == CenterRowsLoop(rows, <<>>)

\* the row of the normalized file main wrote, as csv.DictReader hands it to
\* the report: the columns the report and the summary read
ReportRowOf(r) ==
  << <<Key.NAME, r.NAME>>, <<Key.Mapped, r.Gating_mapped_to_ontologies>> >>

(***************************************************************************)
(* update_iri_maps_from_owl (common.py).  The tree is the list of the      *)
(* owl:Class children of the root; a class is its rdf:about, the text of   *)
(* its rdfs:label, the texts of its oboInOwl:hasExactSynonym children and  *)
(* the children of its rdfs:subClassOf children; None is an attribute or   *)
(* an element the class does not have.                                     *)
(***************************************************************************)

\* the loop over oboInOwl:hasExactSynonym
RECURSIVE SynonymsLoop(_, _, _)
SynonymsLoop(syns, iri, isyns) ==
  IF syns = <<>> THEN isyns
  ELSE SynonymsLoop(Tail(syns), iri, DictSet(isyns, CaseFold(Head(syns)), iri))

\* the gates the loop over rdfs:subClassOf/* appends to iri_gates[iri]
RECURSIVE PartGates(_)
PartGates(parts) ==
  IF parts = <<>> THEN <<>>
  ELSE LET part == Head(parts)
       IN (IF /\ part.tag = "Restriction"
              /\ ~Falsy(part.value) /\ StartsWith(part.value, s_PR_long)
              /\ HasKey(iri_levels, part.relation)
             THEN <<[kind |-> part.value, level |-> part.relation]>>
             ELSE <<>>) \o PartGates(Tail(parts))

\* iri_parents after the loop over rdfs:subClassOf/*
RECURSIVE PartParents(_, _, _)
PartParents(parts, iri, iparents) ==
  IF parts = <<>> THEN iparents
  ELSE PartParents(Tail(parts), iri,
                   IF Head(parts).tag = "Description" /\ ~Falsy(Head(parts).about)
                     THEN DictSet(iparents, iri, Head(parts).about)
                     ELSE iparents)

\* the body of `for child in root.findall('owl:Class', ns)`
OwlClass(child, maps) ==
  LET iri == child.about
  IN IF Falsy(iri) \/ ~StartsWith(iri, s_CL_long) THEN maps
     ELSE [iri_gates |-> DictSet(maps.iri_gates, iri, PartGates(child.parts)),
           iri_parents |-> PartParents(child.parts, iri, maps.iri_parents),
           iri_labels |-> IF Falsy(child.label) THEN maps.iri_labels
                          ELSE DictSet(maps.iri_labels, iri, child.label),
           synonym_iris |->
             SynonymsLoop(child.synonyms, iri,
                          IF Falsy(child.label) THEN maps.synonym_iris
                          ELSE DictSet(maps.synonym_iris, CaseFold(child.label), iri))]

RECURSIVE OwlClasses(_, _)
OwlClasses(root, maps) ==
  IF root = <<>> THEN maps ELSE OwlClasses(Tail(root), OwlClass(Head(root), maps))

\* update_iri_maps_from_owl(root, iri_gates, iri_parents, iri_labels,
\* synonym_iris): the four maps it returns, which are the dicts it was given
\* but for an empty iri_labels, which it replaces by a new dict
update_iri_maps_from_owl(root, igates, iparents, ilabels, isyns) ==
  OwlClasses(root, [iri_gates |-> igates, iri_parents |-> iparents,
                    iri_labels |-> IF ilabels = <<>> THEN basic_iri_labels ELSE ilabels,
                    synonym_iris |-> isyns])

(***************************************************************************)
(* The inputs of the calls.                                                *)
(***************************************************************************)

\* the lists of at most n elements of S
ListsOf(S, n) == UNION {[1..k -> S] : k \in 0..n}

\* split_gate: gates over a small alphabet, symbol lists over a pool that holds
\* a symbol and its doubling, and the empty symbol
GateChars == {"a", "+", "-"}
GateStrings == ListsOf(GateChars, MaxGateLen)
SymbolPool == {<<"+">>, <<"-">>, <<"+","+">>, <<"+","-">>, <<>>}
SymbolLists == ListsOf(SymbolPool, MaxSymbols)

\* tokenize: project names that name one dialect, none, or two
ProjNames ==
  {<<"L","a","J","o","l","l","a">>,
   <<"A","R","A","0","6">>,
   <<"C","e","n","t","e","r"," ","f","o","r"," ","H","u","m","a","n"," ","I","m","m","u","n","o","l","o","g","y">>,
   <<"W","i","s","t","a","r">>,
   <<"I","P","I","R","C">>,
   <<"W","a","t","s","o","n">>,
   <<"L","t","e","s","t">>,
   <<"S","e","a","t","t","l","e"," ","B","i","o","m","e","d">>,
   <<"E","m","o","r","y">>,
   <<"V","R","C">>,
   <<"E","r","t","l">>,
   <<"S","t","a","n","f","o","r","d">>,
   <<"B","a","y","l","o","r">>,
   <<"R","o","c","h","e","s","t","e","r">>,
   <<"M","a","y","o">>,
   <<"I","m","p","r","o","v","i","n","g"," ","K","i","d","n","e","y">>,
   <<"N","e","w"," ","Y","o","r","k"," ","I","n","f","l","u","e","n","z","a">>,
   <<"M","o","d","e","l","i","n","g"," ","V","i","r","a","l">>,
   <<"I","m","m","u","n","o","b","i","o","l","o","g","y"," ","o","f"," ","A","g","i","n","g">>,
   <<"F","l","o","w"," ","C","y","t","o","m","e","t","r","y"," ","A","n","a","l","y","s","i","s">>,
   <<"I","T","N","0","1","9","A","D">>,
   <<"S","t","a","n","d","a","r","d">>,
   <<"E","m","o","r","y"," ","V","R","C">>,
   <<"V","R","C"," ","E","r","t","l">>,
   <<"M","a","y","o"," ","R","o","c","h","e","s","t","e","r">>,
   <<"B","a","y","l","o","r"," ","S","t","a","n","f","o","r","d">>,
   <<"I","T","N","0","1","9","A","D"," ","L","a","J","o","l","l","a">>,
   <<"W","a","t","s","o","n"," ","E","m","o","r","y">>}

\* tokenize: a reported text is a concatenation of at most MaxPieces pieces
Pieces ==
  {<<"C","D","3">>, <<"+">>, <<"-">>, <<"/">>, <<","," ">>, <<" ">>,
   <<" ","A","N","D"," ">>, <<" ","a","n","d"," ">>, <<"h","i">>, <<":"," ">>}
Texts == {Concat(ps) : ps \in ListsOf(Pieces, MaxPieces)}

\* tokenize: the rows of the scale file the suffix tables are extracted from;
\* the second lists the symbol + among the synonyms of high
StandardScale ==
   << [Name |-> <<"h","i","g","h">>, Symbol |-> <<"+","+">>,
       Synonyms |-> <<"h","i",","," ","(","h","i","g","h",")">>],
      [Name |-> <<"m","e","d","i","u","m">>, Symbol |-> <<"+","~">>,
       Synonyms |-> <<"i","n","t">>],
      [Name |-> <<"l","o","w">>, Symbol |-> <<"+","-">>,
       Synonyms |-> <<"l","o",",","d","i","m">>],
      [Name |-> <<"p","o","s","i","t","i","v","e">>, Symbol |-> <<"+">>,
       Synonyms |-> <<>>],
      [Name |-> <<"n","e","g","a","t","i","v","e">>, Symbol |-> <<"-">>,
       Synonyms |-> <<>>] >>
ScaleTables ==
  {StandardScale,
   << [Name |-> <<"p","o","s","i","t","i","v","e">>, Symbol |-> <<"+">>,
       Synonyms |-> <<"p","o","s">>],
      [Name |-> <<"h","i","g","h">>, Symbol |-> <<"+","+">>,
       Synonyms |-> <<"h","i",","," ","+">>] >>}
SuffixTables == {extract_suffix_syns_symbs_maps(rows, <<>>, <<>>) : rows \in ScaleTables}

\* normalize: tokens are a label and a suffix symbol
NormLabels == {<<"a">>, <<"A">>, <<"b">>, <<>>}
NormSuffixes == {<<>>, <<"+">>}
NormTokens == {l \o s : l \in NormLabels, s \in NormSuffixes}
GateLists == ListsOf(NormTokens, MaxGates)

\* normalize: suffixsymbs.values() of the scale file
StandardSymbols == << <<"+","+">>, <<"+","~">>, <<"+","-">>, <<"+">>, <<"-">> >>

\* normalize: gate_mappings as main reads them from the mappings file (Label,
\* Ontology ID): empty, short identifiers, a long-form identifier, an empty cell
MappingTables ==
  {<<>>,
   << <<<<"a">>, <<"P","R",":","1">>>> >>,
   << <<<<"a">>, s_PR_long \o <<"1">>>>, <<<<"b">>, <<"P","R",":","2">>>> >>,
   << <<<<"a">>, <<>>>> >>,
   << <<<<"A">>, <<"P","R",":","2">>>> >>}

\* normalize: special_gates as main reads them from the special-gates file
\* (Label, Ontology ID, Synonyms, toxic synonym)
SpecialTables ==
  {<<>>,
   << <<<<"b">>, [OntologyID |-> <<"P","R",":","3">>, Synonyms |-> <<"x",","," ","a">>, ToxicSynonym |-> <<>>]>> >>,
   << <<<<"c">>, [OntologyID |-> s_PR_long \o <<"4">>, Synonyms |-> <<>>, ToxicSynonym |-> <<"A">>]>> >>,
   << <<<<"b">>, [OntologyID |-> <<"P","R",":","3">>, Synonyms |-> <<"x",","," ","a">>, ToxicSynonym |-> <<>>]>>,
      <<<<"c">>, [OntologyID |-> s_PR_long \o <<"4">>, Synonyms |-> <<>>, ToxicSynonym |-> <<"A">>]>> >>,
   << <<<<"a">>, [OntologyID |-> <<>>, Synonyms |-> <<>>, ToxicSynonym |-> <<>>]>> >>}

\* normalize: preferred as main reads it from the preferred-labels file
\* (Ontology ID, Preferred Label)
PreferredTables ==
  {<<>>,
   << <<<<"P","R",":","1">>, <<"O","n","e">>>>, <<<<"P","R",":","3">>, <<"T","h","r","e","e">>>> >>,
   << <<s_PR_long \o <<"1">>, <<"L","o","n","g">>>>, <<<<"P","R",":","2">>, <<>>>> >>}

\* the server: the maps populate_maps fills from the ontology files, with two
\* cell types, two proteins, and a special gate whose identifier is no IRI
ServerMaps ==
  LET CL1 == s_CL_long \o <<"1">>
      CL2 == s_CL_long \o <<"2">>
      CL0 == s_CL_long \o <<"0">>
      PR4 == s_PR_long \o <<"4">>
      PR19 == s_PR_long \o <<"1","9">>
  IN [synonym_iris |->
        << <<<<"c","d","4">>, PR4>>, <<<<"c","d","1","9">>, PR19>>,
           <<<<"t"," ","c","e","l","l">>, CL1>>, <<<<"b"," ","c","e","l","l">>, CL2>>,
           <<<<"l","i","v","e">>, <<"L","i","v","e">>>> >>,
      iri_labels |->
        basic_iri_labels \o
        << <<PR4, <<"C","D","4">>>>, <<PR19, <<"C","D","1","9">>>>,
           <<CL1, <<"T"," ","c","e","l","l">>>>, <<CL2, <<"B"," ","c","e","l","l">>>>,
           <<CL0, <<"l","y","m","p","h","o","c","y","t","e">>>> >>,
      iri_parents |-> << <<CL1, CL0>>, <<CL2, CL0>> >>,
      iri_gates |->
        << <<CL1, << [kind |-> PR4, level |-> s_has_part],
                     [kind |-> PR19, level |-> s_lacks_part] >> >>,
           <<CL2, << [kind |-> PR19, level |-> s_has_high] >> >> >>]

\* the server: the cells and gates fields of the requests
CellsFields ==
  {<<"T"," ","c","e","l","l">>, <<"'","T"," ","c","e","l","l","'">>, <<"b"," "," ","c","e","l","l"," ","&"," ","C","D","4","-">>, <<"t"," ","c","e","l","l"," ","&"," ","C","D","1","9","+",","," ","C","D","8">>,
   <<"C","L",":","1">>, <<"C","D","4">>, <<"x"," ","&"," ","z","z","-">>}
GatesFields ==
  {<<>>, <<"C","D","4","-">>, <<"C","D","4">>, <<"C","D","4","+","~">>, <<"C","D","1","9","+",","," ","C","D","4","+","+">>, <<"C","D","1","9","h","i">>,
   <<"z","z",","," ","z","z","-">>, <<"C","D","4"," ","[","c","]","+","-">>, <<"L","i","v","e","-">>}

\* the files the tables are built from: headers with and without a column,
\* lines with and without a cell, spellings registered twice
Files(headers, lines) ==
  {[header |-> h, lines |-> ls] : h \in headers, ls \in ListsOf(lines, MaxLines)}
ScaleFiles ==
  Files({<<Col.Name, Col.Symbol, Col.Synonyms>>, <<Col.Name, Col.Synonyms, Col.Symbol>>,
         <<Col.Name, Col.Symbol>>},
        {<<<<"h","i","g","h">>, <<"+","+">>, <<"h","i",","," ","b","r","i","g","h","t">>>>, <<<<"l","o","w">>, <<"+","-">>, <<"l","o",","," ","h","i">>>>,
         <<<<"l","o","w">>, <<"+","-">>, <<"h","i","g","h">>>>, <<<<"h","i","g","h">>, <<"+","+">>>>, <<>>})
MappingFiles ==
  Files({<<Col.Label, Col.OntologyID>>, <<Col.Label>>},
        {<<<<"a">>, <<"P","R",":","1">>>>, <<<<"a">>, <<"P","R",":","3">>>>, <<<<"b">>, <<"P","R",":","2">>>>, <<<<"a">>>>})
SpecialFiles ==
  Files({<<Col.Label, Col.OntologyID, Col.Synonyms, Col.ToxicSynonym>>,
         <<Col.Label, Col.OntologyID, Col.Synonyms>>},
        {<<<<"b">>, <<"P","R",":","3">>, <<"x",","," ","a">>, <<>>>>, <<<<"b">>, <<"P","R",":","3">>>>, <<<<"c">>>>})
PreferredFiles ==
  Files({<<Col.OntologyID, Col.PreferredLabel>>, <<Col.OntologyID>>},
        {<<<<"P","R",":","1">>, <<"O","n","e">>>>, <<<<"P","R",":","2">>, <<>>>>, <<<<"P","R",":","1">>>>})

\* validate: the markers of a line, the names of the Protein Ontology file,
\* the gates of the cell type with their expected levels
MarkerNames ==
  {<<"C","D","4">>, <<"C","D","4","+">>, <<"C","D","4","-">>, <<"C","D","4","+","+">>, <<"C","D","4","+","-">>, <<"C","D","1","9">>, <<"C","D","1","9","-">>,
   <<"z","z">>, <<"z","z","+">>, <<>>}
GateNames == << <<<<"C","D","4">>, <<"P","R",":","4">>>>, <<<<"C","D","1","9">>, <<"P","R",":","1","9">>>> >>
ValidGates ==
  {<<>>} \cup
  {<< <<<<"P","R",":","4">>, l>> >> :
     l \in {<<"p","o","s","i","t","i","v","e">>, <<"n","e","g","a","t","i","v","e">>, <<"h","i","g","h">>, <<"l","o","w">>}} \cup
  {<< <<<<"P","R",":","4">>, l>>, <<<<"P","R",":","1","9">>, <<"n","e","g","a","t","i","v","e">>>> >> :
     l \in {<<"p","o","s","i","t","i","v","e">>, <<"n","e","g","a","t","i","v","e">>, <<"h","i","g","h">>, <<"l","o","w">>}}

\* main: the rows of the source file, and the tables of a run whose mapping
\* and preferred-label files name the two proteins of the server's maps
MainRows ==
  {[EXPERIMENT_ACCESSION |-> e, NAME |-> n, CL_term |-> t, CL_ID |-> i,
    extra |-> x, POPULATION_DEFNITION_REPORTED |-> r,
    Population_preferred_name |-> Absent, CL_definition |-> Absent,
    Gating_tokenized |-> Absent, Gating_mapped_to_ontologies |-> Absent,
    Gating_preferred_definition |-> Absent, Conflicts |-> Absent,
    Conflict_type |-> Absent] :
     e \in {<<"E","X","P","1">>, <<"E","X","P","2">>},
     n \in {<<"S","D","Y","1">>, <<"E","m","o","r","y">>},
     t \in {<<>>, <<"T"," ","c","e","l","l">>},
     i \in {<<>>, <<"C","L",":","1">>},
     x \in {<<>>, <<"C","D","4","-">>, <<" ","C","D","1","9","+">>,
            <<"C","D","4","+","-",","," ","z","z","+">>},
     r \in {<<>>, <<"C","D","4","+">>, <<"C","D","4","+",","," ","C","D","1","9","-">>, <<"'","C","D","1","9","h","i","'">>,
            <<"C","D","4","+",","," ","C","D","1","9","+">>}}
MainTables ==
  [gate_mappings |-> << <<<<"C","D","4">>, s_PR_long \o <<"4">>>>,
                        <<<<"C","D","1","9">>, s_PR_long \o <<"1","9">>>> >>,
   special_gates |-> <<>>,
   preferred |-> << <<s_PR_long \o <<"4">>, <<"C","D","4">>>>,
                    <<s_PR_long \o <<"1","9">>, <<"C","D","1","9">>>> >>]

\* the report: rows of the normalized file, with the column empty, without
\* its cell, with gates between '; ' and between ', ', and rows of a file
\* without the column; a row may hold counts of an earlier report
ReportNames == {<<"A">>, <<"B">>, <<"T","O","T","A","L">>}
ReportColumns ==
  {<<>>, <<"P","R",":","1","+">>, <<"!","z","z","-">>, <<"P","R",":","1","+",";"," ","!","z","z","-">>,
   <<"!","a",";"," "," ","P","R",":","2","-">>, <<"P","R",":","1","+",";","P","R",":","2","-">>, <<"P","R",":","1","+",","," ","!","z","z","-">>, <<"P","R",":","1","+",";"," ">>,
   None}
ReportRows ==
  {<< <<Key.NAME, n>>, <<Key.Mapped, c>> >> : n \in ReportNames, c \in ReportColumns}
  \cup {<< <<Key.NAME, n>>, <<Key.Mapped, c>>, <<Key.MATCHED_GATES, <<"5">>>> >> :
          n \in ReportNames, c \in ReportColumns}
  \cup {<< <<Key.NAME, n>> >> : n \in ReportNames}

\* the summary: rows of the report, which holds no row with an empty column
SummaryColumns == {<<"P","R",":","1","+">>, <<"!","z","z","-">>, <<"P","R",":","1","+",";"," ","!","z","z","-">>, <<"!","a",";"," "," ","P","R",":","2","-">>}
SummaryRows ==
  {<< <<Key.NAME, n>>, <<Key.Mapped, c>> >> : n \in ReportNames, c \in SummaryColumns}

\* update_iri_maps_from_owl: classes of two cell types, one of them with and
\* without a label, synonyms and parts, a class of the Protein Ontology and a
\* class without rdf:about; restrictions of a relation that is no level and of
\* a value that is no protein
OwlPart(tag, about, relation, value) ==
  [tag |-> tag, about |-> about, relation |-> relation, value |-> value]
OwlClassPool ==
  LET CL1 == s_CL_long \o <<"1">>
      CL2 == s_CL_long \o <<"2">>
      CL0 == s_CL_long \o <<"0">>
      PR4 == s_PR_long \o <<"4">>
      PR19 == s_PR_long \o <<"1","9">>
  IN {[about |-> CL1, label |-> <<"T"," ","c","e","l","l">>, synonyms |-> << <<"T","C">> >>,
       parts |-> << OwlPart("Description", CL0, None, None),
                    OwlPart("Restriction", None, s_has_part, PR4),
                    OwlPart("Restriction", None, s_lacks_part, PR19) >>],
      [about |-> CL1, label |-> None, synonyms |-> <<>>, parts |-> <<>>],
      [about |-> CL2, label |-> <<"B"," ","c","e","l","l">>, synonyms |-> <<>>,
       parts |-> << OwlPart("Restriction", None, s_has_high, PR19),
                    OwlPart("Restriction", None, s_obo \o <<"R","O","_","9">>, PR4),
                    OwlPart("Restriction", None, s_has_part, CL0),
                    OwlPart("Restriction", None, None, PR4),
                    OwlPart("Description", None, None, None) >>],
      [about |-> PR4, label |-> <<"C","D","4">>, synonyms |-> <<>>,
       parts |-> << OwlPart("Description", PR19, None, None) >>],
      [about |-> None, label |-> <<"x">>, synonyms |-> <<>>, parts |-> <<>>]}
Trees == ListsOf(OwlClassPool, 2)

\* tokenize, then normalize, on the tokens: projects of four dialects, texts
\* with gates the tables know and gates they do not, and special gates of
\* which two match one label
RoundTripProjects == {<<"S","t","a","n","d","a","r","d">>, <<"E","m","o","r","y">>, <<"L","a","J","o","l","l","a">>, <<"S","t","a","n","f","o","r","d">>}
RoundTripTexts ==
  {<<"C","D","4","+",","," ","C","D","1","9","-">>, <<"C","D","4","h","i","/","z","z","-">>, <<"C","D","1","9","+"," ","A","N","D"," ","l","i","v","e">>, <<"C","D","4","+","C","D","1","9","-">>, <<"T",":"," ","z","z"," ","d","i","m",","," ","C","D","4">>}
RoundTripSpecial ==
  {<<>>,
   << <<<<"L","i","v","e">>, [OntologyID |-> <<"P","R",":","7">>, Synonyms |-> <<"z","z",","," ","a","l","i","v","e">>, ToxicSynonym |-> <<>>]>>,
      <<<<"D","e","a","d">>, [OntologyID |-> <<"P","R",":","8">>, Synonyms |-> <<>>, ToxicSynonym |-> <<"Z","Z">>]>> >>}

(***************************************************************************)
(* The state machine: one call of one function per behaviour.  Init is the *)
(* call with its arguments, the action is the function's body.             *)
(***************************************************************************)

NoSplitGate == gate = <<>> /\ split = <<>>
NoTokenize ==
  /\ projname = <<>> /\ suffixsymbs = <<>> /\ suffixsyns = <<>> /\ reported = <<>>
  /\ tokenized = <<>> /\ dialect = 0 /\ rawgates = <<>> /\ rewrites = <<>>
NoNormalize ==
  /\ gates = <<>> /\ gate_mappings = <<>> /\ special_gates = <<>> /\ preferred = <<>>
  /\ preferred_label_gates = <<>> /\ ontologized_gates = <<>> /\ warnings = <<>>

NoServer ==
  /\ synonym_iris = <<>> /\ iri_labels = <<>> /\ iri_parents = <<>> /\ iri_gates = <<>>
  /\ cells_field = None /\ gates_field = None
  /\ cell = NoCell /\ gating = NoGating /\ calls = 0
NoFile == file = <<>>
NoValidate ==
  marker_name = <<>> /\ gate_names = <<>> /\ valid_gates = <<>> /\ errors = <<>>
NoMain == main_row = <<>>
NoReport ==
  report_row = <<>> /\ report_result = <<>> /\ report_rows = <<>> /\ centers = <<>>
NoOwl == tree = <<>> /\ default_maps = <<>> /\ returned_maps = <<>>
NoBatch ==
  /\ symbols = <<>>
  /\ NoSplitGate /\ NoTokenize /\ NoNormalize /\ NoServer /\ NoFile /\ NoValidate
  /\ NoMain

InitSplitGate ==
  /\ op = "split_gate"
  /\ gate \in GateStrings
  /\ symbols \in SymbolLists
  /\ split = <<>>
  /\ NoTokenize /\ NoNormalize /\ NoServer /\ NoFile /\ NoValidate /\ NoMain
  /\ NoReport /\ NoOwl

InitTokenize ==
  /\ op = "tokenize"
  /\ projname \in ProjNames
  /\ reported \in Texts
  /\ \E t \in SuffixTables : suffixsymbs = t.suffixsymbs /\ suffixsyns = t.suffixsyns
  /\ tokenized = <<>> /\ dialect = 0 /\ rawgates = <<>> /\ rewrites = <<>>
  /\ symbols = <<>>
  /\ NoSplitGate /\ NoNormalize /\ NoServer /\ NoFile /\ NoValidate /\ NoMain
  /\ NoReport /\ NoOwl

InitNormalize ==
  /\ op = "normalize"
  /\ gates \in GateLists
  /\ gate_mappings \in MappingTables
  /\ special_gates \in SpecialTables
  /\ preferred \in PreferredTables
  /\ symbols = StandardSymbols
  /\ preferred_label_gates = <<>> /\ ontologized_gates = <<>> /\ warnings = <<>>
  /\ NoSplitGate /\ NoTokenize /\ NoServer /\ NoFile /\ NoValidate /\ NoMain
  /\ NoReport /\ NoOwl

\* the server after populate_maps, before its first request
InitServer ==
  /\ op = "server"
  /\ synonym_iris = ServerMaps.synonym_iris
  /\ iri_labels = ServerMaps.iri_labels
  /\ iri_parents = ServerMaps.iri_parents
  /\ iri_gates = ServerMaps.iri_gates
  /\ \E t \in {extract_suffix_syns_symbs_maps(StandardScale, <<>>, <<>>)} :
        suffixsymbs = t.suffixsymbs /\ suffixsyns = t.suffixsyns
  /\ cells_field = None /\ gates_field = None
  /\ cell = NoCell /\ gating = NoGating /\ calls = 0
  /\ projname = <<>> /\ reported = <<>>
  /\ tokenized = <<>> /\ dialect = 0 /\ rawgates = <<>> /\ rewrites = <<>>
  /\ symbols = <<>>
  /\ NoSplitGate /\ NoNormalize /\ NoFile /\ NoValidate /\ NoMain
  /\ NoReport /\ NoOwl

\* the construction of one table from its file
InitBuild ==
  /\ \/ op = "get_suffix_maps" /\ file \in ScaleFiles
     \/ op = "get_gate_mappings" /\ file \in MappingFiles
     \/ op = "get_special_gates" /\ file \in SpecialFiles
     \/ op = "get_preferred" /\ file \in PreferredFiles
  /\ symbols = <<>>
  /\ NoSplitGate /\ NoTokenize /\ NoNormalize /\ NoServer /\ NoValidate /\ NoMain
  /\ NoReport /\ NoOwl

\* validate at one marker of one line
InitValidate ==
  /\ op = "validate"
  /\ marker_name \in MarkerNames
  /\ gate_names = GateNames
  /\ valid_gates \in ValidGates
  /\ errors = <<>>
  /\ symbols = <<>>
  /\ NoSplitGate /\ NoTokenize /\ NoNormalize /\ NoServer /\ NoFile /\ NoMain
  /\ NoReport /\ NoOwl

\* main at one row of the source file, the tables built
InitMain ==
  /\ op = "main"
  /\ main_row \in MainRows
  /\ \E t \in {extract_suffix_syns_symbs_maps(StandardScale, <<>>, <<>>)} :
        suffixsymbs = t.suffixsymbs /\ suffixsyns = t.suffixsyns
  /\ gate_mappings = MainTables.gate_mappings
  /\ special_gates = MainTables.special_gates
  /\ preferred = MainTables.preferred
  /\ synonym_iris = ServerMaps.synonym_iris
  /\ iri_labels = ServerMaps.iri_labels
  /\ iri_parents = ServerMaps.iri_parents
  /\ iri_gates = ServerMaps.iri_gates
  /\ cells_field = None /\ gates_field = None
  /\ cell = NoCell /\ gating = NoGating /\ calls = 0
  /\ projname = <<>> /\ reported = <<>>
  /\ tokenized = <<>> /\ dialect = 0 /\ rawgates = <<>> /\ rewrites = <<>>
  /\ gates = <<>>
  /\ preferred_label_gates = <<>> /\ ontologized_gates = <<>> /\ warnings = <<>>
  /\ symbols = <<>>
  /\ NoSplitGate /\ NoFile /\ NoValidate
  /\ NoReport /\ NoOwl

\* tokenize and then normalize, as main does on the reported definition
InitRoundTrip ==
  /\ op = "tokenize_normalize"
  /\ projname \in RoundTripProjects
  /\ reported \in RoundTripTexts
  /\ \E t \in {extract_suffix_syns_symbs_maps(StandardScale, <<>>, <<>>)} :
        suffixsymbs = t.suffixsymbs /\ suffixsyns = t.suffixsyns
  /\ gate_mappings = MainTables.gate_mappings
  /\ special_gates \in RoundTripSpecial
  /\ preferred = MainTables.preferred
  /\ tokenized = <<>> /\ dialect = 0 /\ rawgates = <<>> /\ rewrites = <<>>
  /\ gates = <<>>
  /\ preferred_label_gates = <<>> /\ ontologized_gates = <<>> /\ warnings = <<>>
  /\ symbols = <<>>
  /\ NoSplitGate /\ NoServer /\ NoFile /\ NoValidate /\ NoMain
  /\ NoReport /\ NoOwl

\* generate_report_row at one row of the normalized file
InitReport ==
  /\ op = "generate_report_row"
  /\ report_row \in ReportRows
  /\ report_result = [raised |-> FALSE, returned_none |-> TRUE, row |-> report_row]
  /\ report_rows = <<>> /\ centers = <<>>
  /\ NoBatch /\ NoOwl

\* get_centers_info on the rows of a report
InitSummary ==
  /\ op = "get_centers_info"
  /\ report_rows \in ListsOf(SummaryRows, MaxRows)
  /\ centers = <<>>
  /\ report_row = <<>> /\ report_result = <<>>
  /\ NoBatch /\ NoOwl

\* update_iri_maps_from_owl before its first call: the dicts that are the
\* default values of iri_gates, iri_parents and synonym_iris, made when the
\* function was defined
InitOwl ==
  /\ op = "update_iri_maps_from_owl"
  /\ tree = <<>>
  /\ default_maps = [iri_gates |-> <<>>, iri_parents |-> <<>>, synonym_iris |-> <<>>]
  /\ returned_maps = <<>>
  /\ NoBatch /\ NoReport

Init ==
  /\ done = FALSE
  /\ raised = FALSE
  /\ runs = 0
  /\ \/ InitSplitGate \/ InitBuild \/ InitValidate \/ InitMain \/ InitServer
     \/ InitRoundTrip \/ InitReport \/ InitSummary \/ InitOwl
     \/ InitNormalize \/ InitTokenize

SplitGate ==
  /\ op = "split_gate" /\ ~done
  /\ done' = TRUE
  /\ split' = split_gate(gate, symbols)
  /\ UNCHANGED <<op, gate, symbols, projname, suffixsymbs, suffixsyns, reported,
                 tokenized, dialect, rawgates, rewrites, gates, gate_mappings,
                 special_gates, preferred, preferred_label_gates,
                 ontologized_gates, warnings, raised>>
  /\ UNCHANGED <<serverVars, file, validateVars, main_row, runs, reportVars, owlVars>>

Tokenize ==
  /\ op = "tokenize" /\ ~done
  /\ done' = TRUE
  /\ \E r \in {tokenize(projname, suffixsymbs, suffixsyns, reported)} :
        /\ tokenized' = r.tokenized
        /\ dialect' = r.dialect
        /\ rawgates' = r.rawgates
        /\ rewrites' = r.rewrites
        /\ raised' = r.raised
  /\ UNCHANGED <<op, gate, symbols, split, projname, suffixsymbs, suffixsyns,
                 reported, gates, gate_mappings, special_gates, preferred,
                 preferred_label_gates, ontologized_gates, warnings>>
  /\ UNCHANGED <<serverVars, file, validateVars, main_row, runs, reportVars, owlVars>>

Normalize ==
  /\ op = "normalize" /\ ~done
  /\ done' = TRUE
  /\ \E r \in {normalize(gates, gate_mappings, special_gates, preferred, symbols)} :
        /\ raised' = r.raised
        /\ warnings' = r.warnings
        /\ preferred_label_gates' = IF r.raised THEN <<>> ELSE r.returned[1]
        /\ ontologized_gates' = IF r.raised THEN <<>> ELSE r.returned[2]
  /\ UNCHANGED <<op, gate, symbols, split, projname, suffixsymbs, suffixsyns,
                 reported, tokenized, dialect, rawgates, rewrites, gates,
                 gate_mappings, special_gates, preferred>>
  /\ UNCHANGED <<serverVars, file, validateVars, main_row, runs, reportVars, owlVars>>

\* the variables of the batch calls, which the server leaves alone
batchVars ==
  <<gate, symbols, split, projname, suffixsymbs, suffixsyns, reported, tokenized,
    dialect, rawgates, rewrites, gates, gate_mappings, special_gates, preferred,
    preferred_label_gates, ontologized_gates, warnings>>

\* a request's first half: cell = parse_cells_field(cells_field)
ParseCellsField ==
  /\ op = "server" /\ calls < MaxCalls
  /\ \E f \in CellsFields : \E r \in {parse_cells_field(f)} :
        /\ cells_field' = f
        /\ gates_field' = None
        /\ cell' = r.cell
        /\ gating' = NoGating
        /\ raised' = r.raised
        /\ iri_gates' = WrittenThrough(r.cell)
  /\ calls' = calls + 1
  /\ UNCHANGED <<op, done, batchVars, synonym_iris, iri_labels, iri_parents,
                 file, validateVars, main_row, runs, reportVars, owlVars>>

\* a request's second half: gating = parse_gates_field(gates_field, cell)
ParseGatesField ==
  /\ op = "server" /\ calls < MaxCalls
  /\ cells_field # None /\ ~raised
  /\ \E f \in GatesFields : \E r \in {parse_gates_field(f, cell)} :
        /\ gates_field' = f
        /\ cell' = r.cell
        /\ gating' = r.gating
        /\ raised' = r.raised
        /\ iri_gates' = WrittenThrough(r.cell)
  /\ calls' = calls + 1
  /\ UNCHANGED <<op, done, batchVars, cells_field, synonym_iris, iri_labels,
                 iri_parents, file, validateVars, main_row, runs, reportVars,
                 owlVars>>

\* the variables a table builder leaves alone, but for the table it builds
builtVars ==
  <<op, gate, symbols, split, projname, reported, tokenized, dialect, rawgates,
    rewrites, gates, preferred_label_gates, ontologized_gates, warnings,
    serverVars, file, validateVars, main_row, runs, reportVars, owlVars>>

GetSuffixMaps ==
  /\ op = "get_suffix_maps" /\ ~done
  /\ done' = TRUE
  /\ \E r \in {get_suffix_maps(file)} :
        /\ raised' = r.raised
        /\ suffixsymbs' = r.suffixsymbs
        /\ suffixsyns' = r.suffixsyns
  /\ UNCHANGED <<builtVars, gate_mappings, special_gates, preferred>>

GetGateMappings ==
  /\ op = "get_gate_mappings" /\ ~done
  /\ done' = TRUE
  /\ \E r \in {get_gate_mappings(file)} :
        raised' = r.raised /\ gate_mappings' = r.table
  /\ UNCHANGED <<builtVars, suffixsymbs, suffixsyns, special_gates, preferred>>

GetSpecialGates ==
  /\ op = "get_special_gates" /\ ~done
  /\ done' = TRUE
  /\ \E r \in {get_special_gates(file)} :
        raised' = r.raised /\ special_gates' = r.table
  /\ UNCHANGED <<builtVars, suffixsymbs, suffixsyns, gate_mappings, preferred>>

GetPreferred ==
  /\ op = "get_preferred" /\ ~done
  /\ done' = TRUE
  /\ \E r \in {get_preferred(file)} :
        raised' = r.raised /\ preferred' = r.table
  /\ UNCHANGED <<builtVars, suffixsymbs, suffixsyns, gate_mappings, special_gates>>

Validate ==
  /\ op = "validate" /\ ~done
  /\ done' = TRUE
  /\ errors' = errors \o validate_marker(marker_name, gate_names, valid_gates)
  /\ UNCHANGED <<op, raised, batchVars, serverVars, file, marker_name, gate_names,
                 valid_gates, main_row, runs, reportVars, owlVars>>

\* one pass of `for row in rows` of main
MainRow ==
  /\ op = "main" /\ ~done
  /\ done' = TRUE
  /\ \E r \in {main_loop_body(main_row, suffixsymbs, suffixsyns, gate_mappings,
                              special_gates, preferred)} :
        main_row' = r.row /\ raised' = r.raised
  /\ UNCHANGED <<op, batchVars, serverVars, file, validateVars, runs, reportVars,
                 owlVars>>

\* tokenized_gates = tokenize(...); normalize(tokenized_gates, ...), run again
\* on the same arguments with the tables as the run before left them
TokenizeNormalize ==
  /\ op = "tokenize_normalize" /\ runs < MaxRuns /\ ~raised
  /\ done' = TRUE
  /\ runs' = runs + 1
  /\ \E t \in {tokenize(projname, suffixsymbs, suffixsyns, reported)} :
     \E n \in {normalize(t.tokenized, gate_mappings, special_gates, preferred,
                         Values(suffixsymbs))} :
        /\ tokenized' = t.tokenized
        /\ dialect' = t.dialect
        /\ rawgates' = t.rawgates
        /\ rewrites' = t.rewrites
        /\ gates' = t.tokenized
        /\ raised' = (t.raised \/ n.raised)
        /\ warnings' = n.warnings
        /\ preferred_label_gates' = IF n.raised THEN <<>> ELSE n.returned[1]
        /\ ontologized_gates' = IF n.raised THEN <<>> ELSE n.returned[2]
  /\ UNCHANGED <<op, gate, symbols, split, projname, suffixsymbs, suffixsyns,
                 reported, gate_mappings, special_gates, preferred>>
  /\ UNCHANGED <<serverVars, file, validateVars, main_row, reportVars, owlVars>>

GenerateReportRow ==
  /\ op = "generate_report_row" /\ ~done
  /\ done' = TRUE
  /\ report_result' = generate_report_row(report_row)
  /\ raised' = report_result'.raised
  /\ UNCHANGED <<op, batchVars, serverVars, file, validateVars, main_row, runs,
                 report_row, report_rows, centers, owlVars>>

GetCentersInfo ==
  /\ op = "get_centers_info" /\ ~done
  /\ done' = TRUE
  /\ \E r \in {get_centers_info(report_rows)} :
        centers' = r.centers /\ raised' = r.raised
  /\ UNCHANGED <<op, batchVars, serverVars, file, validateVars, main_row, runs,
                 report_row, report_result, report_rows, owlVars>>

\* report.py on the row main wrote to the normalized file
ReportMainRow ==
  /\ op = "main" /\ done /\ ~raised /\ runs = 0
  /\ main_row.Gating_tokenized # Absent
  /\ runs' = 1
  /\ report_row' = ReportRowOf(main_row)
  /\ report_result' = generate_report_row(report_row')
  /\ UNCHANGED <<op, done, raised, batchVars, serverVars, file, validateVars,
                 main_row, report_rows, centers, owlVars>>

\* summarize.py on the row report.py wrote to the report
SummarizeMainRow ==
  /\ op = "main" /\ done /\ ~raised /\ runs = 1
  /\ ~report_result.returned_none
  /\ runs' = 2
  /\ report_rows' = <<report_result.row>>
  /\ centers' = get_centers_info(report_rows').centers
  /\ UNCHANGED <<op, done, raised, batchVars, serverVars, file, validateVars,
                 main_row, report_row, report_result, owlVars>>

\* update_iri_maps_from_owl(root), the map arguments omitted: the function
\* fills the dicts that are its default values and returns them
UpdateIriMapsFromOwl ==
  /\ op = "update_iri_maps_from_owl" /\ runs < MaxTrees
  /\ runs' = runs + 1
  /\ tree' \in Trees
  /\ returned_maps' = update_iri_maps_from_owl(
                        tree', default_maps.iri_gates, default_maps.iri_parents,
                        <<>>, default_maps.synonym_iris)
  /\ default_maps' = [iri_gates |-> returned_maps'.iri_gates,
                      iri_parents |-> returned_maps'.iri_parents,
                      synonym_iris |-> returned_maps'.synonym_iris]
  /\ UNCHANGED <<op, done, raised, batchVars, serverVars, file, validateVars,
                 main_row, reportVars>>

Next ==
  \/ SplitGate
  \/ Validate
  \/ MainRow
  \/ TokenizeNormalize
  \/ UpdateIriMapsFromOwl
  \/ GenerateReportRow \/ GetCentersInfo \/ ReportMainRow \/ SummarizeMainRow
  \/ GetSuffixMaps \/ GetGateMappings \/ GetSpecialGates \/ GetPreferred
  \/ ParseCellsField \/ ParseGatesField
  \/ Normalize
  \/ Tokenize

Spec == Init /\ [][Next]_vars

(***************************************************************************)
(* Properties of split_gate.                                               *)
(***************************************************************************)

\* C1: split_gate returns as suffix the longest symbol the gate ends with
\* (never a shorter one when a longer one matches too), and the unchanged gate
\* with an empty suffix when the gate ends with no symbol.
C1_LongestSuffix ==
  (op = "split_gate" /\ done) =>
    LET matching == {k \in 1..Len(symbols) : EndsWith(gate, symbols[k])}
    IN IF matching = {}
         THEN split = <<gate, <<>>>>
         ELSE /\ \E k \in matching : split[2] = symbols[k]
              /\ \A k \in matching : Len(symbols[k]) <= Len(split[2])

\* the shorter symbol comes first in the list and the longer one is returned
C1_Witness ==
  /\ op = "split_gate" /\ done
  /\ gate = <<"a","+","+">>
  /\ symbols = << <<"+">>, <<"+","+">> >>
  /\ split = << <<"a">>, <<"+","+">> >>

(***************************************************************************)
(* Properties of normalize.  For the i-th token: the label and the suffix   *)
(* split_gate finds, the special gates the label matches, and the           *)
(* identifier the three sources resolve the label to.                       *)
(***************************************************************************)
TokenLabel(i) == split_gate(gates[i], symbols)[1]
TokenSuffix(i) == split_gate(gates[i], symbols)[2]

\* the positions in special_gates of the entries the label of token i matches
SpecialMatches(i) ==
  {k \in 1..Len(special_gates) :
     SpecialMatch(TokenLabel(i), special_gates[k][1], special_gates[k][2])}
FirstSpecial(i) == CHOOSE k \in SpecialMatches(i) : \A j \in SpecialMatches(i) : k <= j

\* the long form of an identifier replaced by its short form
ShortForm(id) == Replace(id, s_PR_long, s_PR_short)

\* the identifier picked when every value of the mapping table counts
PickedLiterally(i) ==
  IF HasKey(gate_mappings, TokenLabel(i)) THEN DictGet(gate_mappings, TokenLabel(i))
  ELSE IF SpecialMatches(i) # {} THEN special_gates[FirstSpecial(i)][2].OntologyID
  ELSE <<"!">> \o TokenLabel(i)

\* the identifier picked when an empty value of the mapping table counts as absent
Picked(i) ==
  IF HasKey(gate_mappings, TokenLabel(i)) /\ DictGet(gate_mappings, TokenLabel(i)) # <<>>
    THEN DictGet(gate_mappings, TokenLabel(i))
  ELSE IF SpecialMatches(i) # {} THEN special_gates[FirstSpecial(i)][2].OntologyID
  ELSE <<"!">> \o TokenLabel(i)

NormalizeDone == op = "normalize" /\ done /\ ~raised

\* C2 as stated: the value the mapping table holds for the label is the
\* identifier whenever the label is a key of the table, whatever the value; the
\* first matching special gate, then '!' + label, only for a label that is no key.
C2_MappingAlwaysWins ==
  NormalizeDone =>
    \A i \in 1..Len(gates) :
      ontologized_gates[i] = ShortForm(PickedLiterally(i)) \o TokenSuffix(i)

\* C2 as amended: the non-empty value the mapping table holds for the label is
\* the identifier; for a label that is absent from the table or mapped to an
\* empty value, the identifier of the first matching special gate; without one,
\* '!' + label.  A non-empty mapping wins over a special-gate match.
C2_NonEmptyMappingWins ==
  NormalizeDone =>
    /\ Len(ontologized_gates) = Len(gates)
    /\ \A i \in 1..Len(gates) :
         ontologized_gates[i] = ShortForm(Picked(i)) \o TokenSuffix(i)

\* a label with a mapping and a special-gate match of another identifier: the
\* mapping is emitted
C2_Witness ==
  /\ NormalizeDone
  /\ \E i \in 1..Len(gates) :
       /\ HasKey(gate_mappings, TokenLabel(i))
       /\ DictGet(gate_mappings, TokenLabel(i)) # <<>>
       /\ SpecialMatches(i) # {}
       /\ special_gates[FirstSpecial(i)][2].OntologyID
            # DictGet(gate_mappings, TokenLabel(i))
       /\ ontologized_gates[i]
            = ShortForm(DictGet(gate_mappings, TokenLabel(i))) \o TokenSuffix(i)

\* C3: normalize returns, without raising, one entry per token in each output,
\* whatever labels the three tables lack; a label without a mapping and without
\* a special-gate match yields '!' + label + suffix in both outputs.
C3_NeverRaises ==
  (op = "normalize" /\ done) =>
    /\ ~raised
    /\ Len(ontologized_gates) = Len(gates)
    /\ Len(preferred_label_gates) = Len(gates)
    /\ \A i \in 1..Len(gates) :
         (~HasKey(gate_mappings, TokenLabel(i)) /\ SpecialMatches(i) = {}) =>
           /\ ontologized_gates[i] = <<"!">> \o TokenLabel(i) \o TokenSuffix(i)
           /\ preferred_label_gates[i] = <<"!">> \o TokenLabel(i) \o TokenSuffix(i)

\* a token with a suffix whose label no table knows, among non-empty tables
C3_Witness ==
  /\ op = "normalize" /\ done /\ ~raised
  /\ gate_mappings # <<>> /\ special_gates # <<>> /\ preferred # <<>>
  /\ \E i \in 1..Len(gates) :
       /\ ~HasKey(gate_mappings, TokenLabel(i))
       /\ SpecialMatches(i) = {}
       /\ TokenLabel(i) # <<>>
       /\ TokenSuffix(i) # <<>>
       /\ ontologized_gates[i] = <<"!">> \o gates[i]
       /\ preferred_label_gates[i] = <<"!">> \o gates[i]

\* the identifier part of the i-th ontology gate: the gate less the suffix
IdentifierPart(i) ==
  SubSeq(ontologized_gates[i], 1, Len(ontologized_gates[i]) - Len(TokenSuffix(i)))

\* a long-form identifier is an IRI
IsLongForm(id) == StartsWith(id, <<"h","t","t","p",":","/","/">>)

\* C4: the identifier part of every ontology gate normalize emits is not the
\* empty string, and is a short-form identifier or starts with '!'.
C4_IdentifierNeverEmpty ==
  NormalizeDone =>
    \A i \in 1..Len(gates) :
      /\ IdentifierPart(i) # <<>>
      /\ (~IsLongForm(IdentifierPart(i)) \/ StartsWith(IdentifierPart(i), <<"!">>))

\* the preferred label chosen for token i: the table's entry for the resolved
\* identifier, else the label of the first matching special gate, else
\* '!' + label
PreferredChoice(i) ==
  IF HasKey(preferred, Picked(i)) THEN DictGet(preferred, Picked(i))
  ELSE IF SpecialMatches(i) # {} THEN special_gates[FirstSpecial(i)][1]
  ELSE <<"!">> \o TokenLabel(i)

\* C5: the preferred label normalize emits for a token is the preferred-label
\* table's entry for the resolved identifier; without one, the label of the
\* first matching special gate; without one, '!' + label.  The suffix of the
\* token is appended in every case.
C5_PreferredLabelPriority ==
  NormalizeDone =>
    /\ Len(preferred_label_gates) = Len(gates)
    /\ \A i \in 1..Len(gates) :
         preferred_label_gates[i] = PreferredChoice(i) \o TokenSuffix(i)

\* a token with a suffix whose identifier has an entry in the preferred table
\* and whose label matches a special gate of another label: the entry is emitted
C5_Witness ==
  /\ NormalizeDone
  /\ \E i \in 1..Len(gates) :
       /\ HasKey(preferred, Picked(i))
       /\ SpecialMatches(i) # {}
       /\ special_gates[FirstSpecial(i)][1] # DictGet(preferred, Picked(i))
       /\ TokenSuffix(i) # <<>>
       /\ preferred_label_gates[i] = DictGet(preferred, Picked(i)) \o TokenSuffix(i)


(***************************************************************************)
(* Properties of tokenize.                                                 *)
(***************************************************************************)
TokenizeDone == op = "tokenize" /\ done

\* the keyword groups of the dialect rules, in the order they are tested
DialectGroups ==
  << <<kw_LaJolla, kw_ARA06, kw_CHI, kw_Wistar>>,
     <<kw_IPIRC, kw_Watson, kw_Ltest, kw_Seattle>>,
     <<kw_Emory>>, <<kw_VRC>>, <<kw_Ertl>>, <<kw_Stanford>>, <<kw_Baylor>>,
     <<kw_Rochester>>, <<kw_Mayo>>, <<kw_Kidney>>, <<kw_NYI>>, <<kw_Viral>>,
     <<kw_Aging>>, <<kw_Flow>>, <<kw_ITN>> >>

\* the groups a keyword of which occurs in the project name
MatchingGroups(pn) ==
  {k \in 1..Len(DialectGroups) :
     \E j \in 1..Len(DialectGroups[k]) : Contains(pn, DialectGroups[k][j])}

\* the first of them, or the default rule
FirstGroup(pn) ==
  IF MatchingGroups(pn) = {} THEN Len(DialectGroups) + 1
  ELSE CHOOSE k \in MatchingGroups(pn) : \A j \in MatchingGroups(pn) : k <= j

\* C6: tokenize uses the rule of the first group, in the fixed order, a keyword
\* of which occurs in the project name, even when later groups match too, and
\* the default rule when no group matches; it raises in neither case.
C6_FirstMatchWins ==
  TokenizeDone =>
    /\ ~raised
    /\ dialect = FirstGroup(projname)
    /\ rawgates = RawGates(FirstGroup(projname), ColonStrip(reported))

\* a project name two groups match, on a text their rules split differently
C6_Witness ==
  /\ TokenizeDone
  /\ \E k \in MatchingGroups(projname) :
       /\ k > dialect
       /\ dialect \in MatchingGroups(projname)
       /\ RawGates(k, ColonStrip(reported)) # rawgates

\* the text after the first colon that whitespace follows, and that whitespace
FirstColonStrip(s) ==
  LET cols == {j \in 1..Len(s) : s[j] = ":" /\ SpaceRun(s, j + 1) > 0}
  IN IF cols = {} THEN s
     ELSE LET j == CHOOSE x \in cols : \A y \in cols : x <= y
          IN From(s, j + 1 + SpaceRun(s, j + 1))

\* C7: of a text that holds a colon followed by whitespace, tokenize discards
\* the prefix that ends with the first such colon and its whitespace, and
\* tokenizes all the rest, whether the text holds one such colon or several.
C7_FirstColonPrefix ==
  (TokenizeDone /\ ~raised) =>
    tokenized = TokenizeGates(dialect, suffixsymbs, suffixsyns,
                              RawGates(dialect, FirstColonStrip(reported))).tokenized

\* C8: the scan over the suffix synonyms stops at the first one the gate ends
\* with: at most one rewrite is applied to a raw gate, for every synonym table.
C8_AtMostOneRewrite ==
  TokenizeDone => \A i \in 1..Len(rewrites) : rewrites[i] <= 1

\* the i-th raw gate after canonicalization
CanonicalGate(i) == Canonical(suffixsymbs, suffixsyns, rawgates[i]).gate
\* the raw gates that are not empty after canonicalization
Kept == {i \in 1..Len(rawgates) : CanonicalGate(i) # <<>>}
\* the place of the i-th raw gate among them
Rank(i) == Cardinality({j \in Kept : j <= i})

\* the strings gs occur in the text one after the other, from index i on
RECURSIVE OccurInOrder(_, _, _)
OccurInOrder(text, gs, i) ==
  \/ gs = <<>>
  \/ \E p \in i..(Len(text) + 1) :
       /\ MatchAt(text, Head(gs), p)
       /\ OccurInOrder(text, Tail(gs), p + Len(Head(gs)))

\* C9: the list tokenize returns holds the canonicalized raw gates in the order
\* in which they occur in the text, a gate that occurs several times as many
\* times as it occurs, and lacks only the raw gates that are empty after
\* canonicalization.
C9_OrderAndDuplicatesKept ==
  (TokenizeDone /\ ~raised) =>
    /\ OccurInOrder(Rewritten(dialect, ColonStrip(reported)), rawgates, 1)
    /\ Len(tokenized) = Cardinality(Kept)
    /\ \A i \in Kept : tokenized[Rank(i)] = CanonicalGate(i)

\* a gate that occurs twice is returned twice
C9_Witness ==
  /\ TokenizeDone /\ ~raised
  /\ Len(rawgates) = 2 /\ rawgates[1] = rawgates[2]
  /\ Len(tokenized) = 2 /\ tokenized[1] = tokenized[2]

\* C10: no token tokenize returns is the empty string and none holds a space.
C10_NoEmptyNoSpace ==
  TokenizeDone =>
    \A i \in 1..Len(tokenized) :
      /\ tokenized[i] # <<>>
      /\ \A k \in 1..Len(tokenized[i]) : tokenized[i][k] # " "

\* a raw gate with an inner space returned with an underscore, and an empty raw
\* gate left out
C10_Witness ==
  /\ TokenizeDone /\ ~raised
  /\ Len(tokenized) < Len(rawgates)
  /\ \E i \in 1..Len(rawgates) :
       /\ \E k \in 1..Len(Strip(rawgates[i])) : Strip(rawgates[i])[k] = " "
       /\ \E j \in 1..Len(tokenized) :
            /\ Len(tokenized[j]) = Len(Strip(rawgates[i]))
            /\ \E k \in 1..Len(tokenized[j]) : tokenized[j][k] = "_"


(***************************************************************************)
(* Properties of normalize: the special gates.                             *)
(***************************************************************************)

\* the names a cell of the special-gates file lists, separated by ', '
NamesIn(text) ==
  {n \in {StrSplit(text, <<",", " ">>)[k] : k \in 1..Len(StrSplit(text, <<",", " ">>))} :
     n # <<>>}

\* the label equals, ignoring case, the entry's label, one of its synonyms or
\* its toxic synonym
NamedBy(label, entry) ==
  \/ CaseFold(label) = CaseFold(entry[1])
  \/ \E n \in NamesIn(entry[2].Synonyms) : CaseFold(label) = CaseFold(n)
  \/ \E n \in NamesIn(entry[2].ToxicSynonym) : CaseFold(label) = CaseFold(n)

\* the positions in special_gates of the entries that name the label of token i
Naming(i) == {k \in 1..Len(special_gates) : NamedBy(TokenLabel(i), special_gates[k])}
FirstNaming(i) == CHOOSE k \in Naming(i) : \A j \in Naming(i) : k <= j

\* C11: a special gate matches the label of a token exactly when the label
\* equals, ignoring case, its label, one of its synonyms or its toxic synonym.
\* A label without a direct mapping that a special gate matches resolves to
\* that gate's identifier plus the suffix, and to that gate's label plus the
\* suffix as preferred label when the preferred table lacks the identifier; a
\* label without a direct mapping that no special gate matches is unresolved.
C11_SpecialGateMatch ==
  NormalizeDone =>
    \A i \in 1..Len(gates) :
      /\ warnings[i] = IF Cardinality(Naming(i)) > 1 THEN Cardinality(Naming(i)) ELSE 0
      /\ (~HasKey(gate_mappings, TokenLabel(i)) /\ Naming(i) # {}) =>
           /\ ontologized_gates[i]
                = ShortForm(special_gates[FirstNaming(i)][2].OntologyID) \o TokenSuffix(i)
           /\ ~HasKey(preferred, special_gates[FirstNaming(i)][2].OntologyID) =>
                preferred_label_gates[i]
                  = special_gates[FirstNaming(i)][1] \o TokenSuffix(i)
      /\ (~HasKey(gate_mappings, TokenLabel(i)) /\ Naming(i) = {}) =>
           ontologized_gates[i] = <<"!">> \o TokenLabel(i) \o TokenSuffix(i)

\* a label that differs in case from the toxic synonym of the one special gate
\* it matches, resolved to that gate's identifier and label
C11_Witness ==
  /\ NormalizeDone
  /\ \E i \in 1..Len(gates) :
       /\ ~HasKey(gate_mappings, TokenLabel(i))
       /\ Cardinality(Naming(i)) = 1
       /\ TokenLabel(i) \notin NamesIn(special_gates[FirstNaming(i)][2].ToxicSynonym)
       /\ \E n \in NamesIn(special_gates[FirstNaming(i)][2].ToxicSynonym) :
            CaseFold(n) = CaseFold(TokenLabel(i))
       /\ TokenSuffix(i) # <<>>
       /\ ontologized_gates[i]
            = ShortForm(special_gates[FirstNaming(i)][2].OntologyID) \o TokenSuffix(i)
       /\ preferred_label_gates[i] = special_gates[FirstNaming(i)][1] \o TokenSuffix(i)

\* C12: when several special gates match the label of a token, normalize
\* prints a warning, takes the identifier fallback and the preferred-label
\* fallback from the first of them in table order, and goes on with the other
\* tokens without raising.
C12_FirstOfSeveralMatches ==
  (op = "normalize" /\ done) =>
    /\ ~raised
    /\ Len(ontologized_gates) = Len(gates)
    /\ Len(preferred_label_gates) = Len(gates)
    /\ \A i \in 1..Len(gates) :
         Cardinality(Naming(i)) > 1 =>
           /\ warnings[i] > 0
           /\ (~HasKey(gate_mappings, TokenLabel(i))
                 \/ DictGet(gate_mappings, TokenLabel(i)) = <<>>) =>
                ontologized_gates[i]
                  = ShortForm(special_gates[FirstNaming(i)][2].OntologyID)
                      \o TokenSuffix(i)
           /\ ~HasKey(preferred, Picked(i)) =>
                preferred_label_gates[i]
                  = special_gates[FirstNaming(i)][1] \o TokenSuffix(i)

\* a token two special gates of different identifiers match, resolved to the
\* first, and a token after it resolved too
C12_Witness ==
  /\ op = "normalize" /\ done /\ ~raised
  /\ Len(gates) = 2
  /\ Cardinality(Naming(1)) = 2
  /\ warnings[1] = 2
  /\ \E k \in Naming(1) :
       special_gates[k][2].OntologyID # special_gates[FirstNaming(1)][2].OntologyID
  /\ ontologized_gates[1]
       = ShortForm(special_gates[FirstNaming(1)][2].OntologyID) \o TokenSuffix(1)
  /\ preferred_label_gates[1] = special_gates[FirstNaming(1)][1] \o TokenSuffix(1)
  /\ Len(ontologized_gates) = 2 /\ ontologized_gates[2] # ontologized_gates[1]

\* C13: each list normalize returns is as long as the token list; its i-th
\* element is what normalize returns for the i-th token alone and ends with
\* the suffix split_gate strips from that token: no token is dropped, added
\* or moved.
C13_OneResultPerToken ==
  NormalizeDone =>
    /\ Len(preferred_label_gates) = Len(gates)
    /\ Len(ontologized_gates) = Len(gates)
    /\ \A i \in 1..Len(gates) :
         /\ EndsWith(preferred_label_gates[i], TokenSuffix(i))
         /\ EndsWith(ontologized_gates[i], TokenSuffix(i))
         /\ <<preferred_label_gates[i]>>
              = normalize(<<gates[i]>>, gate_mappings, special_gates, preferred,
                          symbols).returned[1]
         /\ <<ontologized_gates[i]>>
              = normalize(<<gates[i]>>, gate_mappings, special_gates, preferred,
                          symbols).returned[2]

\* two tokens of different suffixes and different results
C13_Witness ==
  /\ NormalizeDone
  /\ Len(gates) = 2 /\ Len(ontologized_gates) = 2 /\ Len(preferred_label_gates) = 2
  /\ TokenSuffix(1) # TokenSuffix(2)
  /\ TokenLabel(1) # TokenLabel(2)
  /\ ontologized_gates[1] # ontologized_gates[2]
  /\ ~EndsWith(ontologized_gates[1], ontologized_gates[2])
  /\ ~EndsWith(ontologized_gates[2], ontologized_gates[1])


(***************************************************************************)
(* Properties of the server's parse_gates_field.                           *)
(***************************************************************************)

\* a call of parse_gates_field has returned
GatingDone == op = "server" /\ gates_field # None /\ ~raised

\* the pairs <<explicit gate, gate of the cell>> with equal marker
\* identifiers and different level identifiers
ConflictPairs ==
  {p \in (1..Len(gating.results)) \X (1..Len(cell.results)) :
     /\ gating.results[p[1]].kind = cell.results[p[2]].kind
     /\ gating.results[p[1]].level # cell.results[p[2]].level}

\* the place of a pair among the pairs, explicit gates first
PairRank(p) ==
  Cardinality({q \in ConflictPairs :
                 q[1] < p[1] \/ (q[1] = p[1] /\ q[2] < p[2])}) + 1

\* C14: parse_gates_field processes every gate of the gates field, and the
\* conflict records it returns are, in order, one per pair of an explicit
\* gate and a gate of the cell (definition gates and the cell's own gates)
\* with equal marker identifiers and different level identifiers; the record
\* carries the explicit gate's level and the cell gate's level, both gates
\* are flagged and so is the cell; no other pair has a record.
C14_ConflictPerPair ==
  GatingDone =>
    /\ Len(gating.results) = Len(CsvRow(gates_field))
    /\ Len(gating.conflicts) = Cardinality(ConflictPairs)
    /\ \A p \in ConflictPairs :
         /\ gating.conflicts[PairRank(p)].gate = gating.results[p[1]].gate
         /\ gating.conflicts[PairRank(p)].kind = gating.results[p[1]].kind
         /\ gating.conflicts[PairRank(p)].level = gating.results[p[1]].level
         /\ gating.conflicts[PairRank(p)].cell_level = cell.results[p[2]].level
         /\ gating.results[p[1]].conflict
         /\ cell.results[p[2]].conflict
         /\ cell.core_info.conflicts

\* the j-th gate of the cell is a gate of the cell's own description
OwnGate(j) ==
  \E k \in 1..Len(cell.core_info.cell_gates) : cell.core_info.cell_gates[k] = j

\* an explicit gate conflicts with a definition gate and with a gate of the
\* cell's own description, and another pair has no conflict
C14_Witness ==
  /\ GatingDone
  /\ \E p \in ConflictPairs : OwnGate(p[2])
  /\ \E p \in ConflictPairs : ~OwnGate(p[2])
  /\ Cardinality(ConflictPairs) < Len(gating.results) * Len(cell.results)
  /\ Len(gating.conflicts) >= 2

(***************************************************************************)
(* Properties of tokenize: the AND dialects.                               *)
(***************************************************************************)

\* the word between whitespace occurs in s, in exactly this case
HasSpaced(s, word) ==
  \E i \in 1..Len(s) :
     /\ IsSpace(s[i])
     /\ MatchAt(s, word, i + 1)
     /\ i + Len(word) + 1 <= Len(s)
     /\ IsSpace(s[i + Len(word) + 1])

\* text is the gates gs joined by delimiters, each a run of whitespace, the
\* word in exactly this case, and a run of whitespace
RECURSIVE JoinedBy(_, _, _)
JoinedBy(text, gs, word) ==
  IF Len(gs) = 1 THEN text = gs[1]
  ELSE /\ StartsWith(text, gs[1])
       /\ LET rest == From(text, Len(gs[1]) + 1)
              before == SpaceRun(rest, 1)
              after == SpaceRun(rest, before + Len(word) + 1)
          IN /\ before > 0
             /\ MatchAt(rest, word, before + 1)
             /\ after > 0
             /\ JoinedBy(From(rest, before + Len(word) + after + 1), Tail(gs), word)

\* the word the dialect of the last call splits on
SplitWord == IF dialect = 4 THEN s_AND ELSE s_and

\* C15: in the VRC dialect the gates tokenize splits the text into are the
\* pieces between the occurrences of uppercase AND surrounded by whitespace,
\* in the Ertl dialect those between lowercase and surrounded by whitespace:
\* the text is the gates joined by such delimiters (in exactly that case) and
\* no gate holds one.
C15_SplitWordCase ==
  (TokenizeDone /\ dialect \in {4, 5}) =>
    /\ rawgates # <<>>
    /\ JoinedBy(ColonStrip(reported), rawgates, SplitWord)
    /\ \A k \in 1..Len(rawgates) : ~HasSpaced(rawgates[k], SplitWord)

\* a VRC text with AND and with lowercase and, both surrounded by whitespace:
\* it is split in two, and the lowercase word stays in its gate
C15_Witness ==
  /\ TokenizeDone /\ dialect = 4
  /\ HasSpaced(reported, s_and)
  /\ Len(rawgates) = 2
  /\ \E k \in 1..2 : Contains(rawgates[k], s_and)

(***************************************************************************)
(* Properties of the construction of the tables.                           *)
(***************************************************************************)

\* the suffix tables have been extracted from the scale file
SuffixMapsDone == op = "get_suffix_maps" /\ done /\ ~raised

\* the registrations <<spelling, canonical name>> the rows ask for, in order:
\* a row's name for itself, then each of its synonyms for its name
RECURSIVE Registrations(_)
Registrations(rows) ==
  IF rows = <<>> THEN <<>>
  ELSE LET name == DictGet(Head(rows), Col.Name)
           parts == StrSplit(DictGet(Head(rows), Col.Synonyms), <<",">>)
           synonyms == SelectSeq([k \in 1..Len(parts) |-> Strip(parts[k])],
                                 LAMBDA s : s # <<>>)
       IN <<<<name, name>>>> \o [k \in 1..Len(synonyms) |-> <<synonyms[k], name>>]
            \o Registrations(Tail(rows))

\* the registrations whose spelling no earlier registration has
FirstRegistered(regs) ==
  LET first == {k \in 1..Len(regs) : \A j \in 1..(k - 1) : regs[j][1] # regs[k][1]}
      Nth(n) == CHOOSE k \in first : Cardinality({j \in first : j < k}) = n - 1
  IN [n \in 1..Cardinality(first) |-> regs[Nth(n)]]

\* C16: the synonym table lists the spellings in the order of their first
\* registration, each with the canonical name of that first registration.
C16_FirstRegistrationKept ==
  SuffixMapsDone => suffixsyns = FirstRegistered(Registrations(DictReader(file)))

(***************************************************************************)
(* Properties of the level of a gate without a suffix.                     *)
(***************************************************************************)

\* the marker is written without a suffix symbol
NoSuffix(name) == ~EndsWith(name, <<"+">>) /\ ~EndsWith(name, <<"-">>)

\* validate has compared a marker the Protein Ontology names
ValidateDone == op = "validate" /\ done /\ HasKey(gate_names, get_clean_marker(marker_name)[1])

\* C17: a gate written without a suffix symbol has the level positive: the
\* server's process_gate gives it the name and the identifier of the level
\* of '+', and validate appends for it the messages it appends for the same
\* marker written with '+'.
C17_BareGateIsPositive ==
  /\ GatingDone =>
       \A k \in 1..Len(gating.results) :
          split_gate(gating.results[k].gate, Values(suffixsymbs))[2] = <<>> =>
            /\ gating.results[k].level_name = DictGet(level_names, <<"+">>)
            /\ gating.results[k].level = DictGet(level_iris, <<"+">>)
  /\ (ValidateDone /\ NoSuffix(marker_name)) =>
       errors = validate_marker(marker_name \o <<"+">>, gate_names, valid_gates)

(***************************************************************************)
(* Properties of the rows main writes.                                     *)
(***************************************************************************)

\* main has written the row
RowWritten == op = "main" /\ done /\ ~raised /\ main_row.Gating_tokenized # Absent

\* the tokens of the row's reported population definition
ReportedTokens ==
  tokenize(main_row.NAME, suffixsymbs, suffixsyns,
           StripChars(StripChars(main_row.POPULATION_DEFNITION_REPORTED, {"\""}), {"'"})
          ).tokenized

\* the resolution of these tokens
ReportedResolved ==
  normalize(ReportedTokens, gate_mappings, special_gates, preferred,
            Values(suffixsymbs)).returned

\* C18: in a row main writes, 'Gating tokenized' holds the tokens of the
\* reported population definition, and 'Gating mapped to ontologies' and
\* 'Gating preferred definition' hold the resolution of exactly these
\* tokens: their identifiers and their preferred labels, one per token, in
\* the order of the tokens.
C18_ColumnsOfOneTokenization ==
  RowWritten =>
    /\ main_row.Gating_tokenized = Join(ReportedTokens, s_comma_space)
    /\ main_row.Gating_mapped_to_ontologies = Join(ReportedResolved[2], s_comma_space)
    /\ main_row.Gating_preferred_definition = Join(ReportedResolved[1], s_comma_space)

(***************************************************************************)
(* Properties of the table builders on malformed files.                    *)
(***************************************************************************)

\* the columns each builder reads of every row
RequiredColumns ==
  [get_suffix_maps |-> {Col.Name, Col.Symbol, Col.Synonyms},
   get_gate_mappings |-> {Col.Label, Col.OntologyID},
   get_special_gates |-> {Col.Label, Col.OntologyID, Col.Synonyms, Col.ToxicSynonym},
   get_preferred |-> {Col.OntologyID, Col.PreferredLabel}]

BuilderDone == op \in DOMAIN RequiredColumns /\ done

\* some row of the file has no cell under a required column: the header
\* lacks the column, or the line ends before it
SomeRowLacksColumn ==
  \E i \in 1..Len(file.lines) :
     /\ file.lines[i] # <<>>
     /\ \E k \in RequiredColumns[op] :
           ~\E j \in 1..Len(file.header) :
               file.header[j] = k /\ j <= Len(file.lines[i])

\* C19: a builder given a file in which some row lacks a required column
\* fails with an error; it returns no table.
C19_MalformedRowRaises ==
  (BuilderDone /\ SomeRowLacksColumn) => raised

(***************************************************************************)
(* The lookup tables under the calls that use them.                        *)
(***************************************************************************)

lookupTables ==
  <<suffixsymbs, suffixsyns, gate_mappings, special_gates, preferred,
    synonym_iris, iri_labels, iri_parents, iri_gates>>

\* C20: no call of tokenize, normalize, parse_cells_field or
\* parse_gates_field, in any sequence, changes a lookup table: the suffix
\* symbols and synonyms, the gate mappings, the special gates, the preferred
\* labels and the server's synonym, label, parent and gate maps.
C20_TablesReadOnly ==
  [][(op \in {"tokenize", "normalize", "server"}) => (lookupTables' = lookupTables)]_vars

\* a request was served on a cell type with gates in iri_gates, and a gate of
\* the request and a gate of the cell were flagged as in conflict
C20_Witness ==
  /\ op = "server" /\ calls >= 2 /\ ~raised
  /\ cell.results # <<>>
  /\ \E j \in 1..Len(cell.results) : cell.results[j].conflict
  /\ \E j \in 1..Len(gating.results) : gating.results[j].conflict
  /\ iri_gates = ServerMaps.iri_gates

(***************************************************************************)
(* Tokenizing and resolving again.                                         *)
(***************************************************************************)

ReportDone == op = "generate_report_row" /\ done /\ ~raised

\* the places of the column where a gate ends: a semicolon that whitespace
\* follows
Separators(col) ==
  {i \in 1..(Len(col) - 1) : col[i] = ";" /\ IsSpace(col[i + 1])}

\* the places where the gates listed in the column start
GateStarts(col) ==
  {1} \cup {i + 1 + SpaceRun(col, i + 1) : i \in Separators(col)}

\* the gates listed that do not start with '!'
MatchedStarts(col) ==
  {q \in GateStarts(col) : ~(q <= Len(col) /\ col[q] = "!")}

\* the counts of a returned row agree with the gates listed in the column
CountsOf(row, col) ==
  /\ DictGet(row, Key.TOTAL_GATES) = Cardinality(GateStarts(col))
  /\ DictGet(row, Key.MATCHED_GATES) = Cardinality(MatchedStarts(col))
  /\ 0 <= DictGet(row, Key.MATCHED_GATES)
  /\ DictGet(row, Key.MATCHED_GATES) <= DictGet(row, Key.TOTAL_GATES)

\* C22: for a row whose 'Gating mapped to ontologies' column is not empty,
\* generate_report_row returns the row with TOTAL_GATES set to the number of
\* gates the column lists, separated by a semicolon and whitespace, and
\* MATCHED_GATES to the number of them that do not start with '!', so that
\* 0 <= MATCHED_GATES <= TOTAL_GATES, and with every other field as it was;
\* for a row whose column is empty it returns no row.
C22_ReportRowCounts ==
  ReportDone =>
    IF Falsy(DictGet(report_row, Key.Mapped))
      THEN report_result.returned_none /\ report_result.row = report_row
      ELSE /\ ~report_result.returned_none
           /\ CountsOf(report_result.row, DictGet(report_row, Key.Mapped))
           /\ {report_result.row[i][1] : i \in 1..Len(report_result.row)}
                = {report_row[i][1] : i \in 1..Len(report_row)}
                    \cup {Key.MATCHED_GATES, Key.TOTAL_GATES}
           /\ \A i \in 1..Len(report_row) :
                 report_row[i][1] \notin {Key.MATCHED_GATES, Key.TOTAL_GATES}
                   => DictGet(report_result.row, report_row[i][1]) = report_row[i][2]

\* a row is returned with gates that start with '!' and gates that do not
C22_Witness ==
  /\ ReportDone /\ ~report_result.returned_none
  /\ DictGet(report_result.row, Key.TOTAL_GATES) >= 2
  /\ DictGet(report_result.row, Key.MATCHED_GATES) >= 1
  /\ DictGet(report_result.row, Key.MATCHED_GATES)
       < DictGet(report_result.row, Key.TOTAL_GATES)

(***************************************************************************)
(* The pair normalize returns.                                             *)
(***************************************************************************)

\* the pair the call of normalize returned
Returned ==
  normalize(gates, gate_mappings, special_gates, preferred, symbols).returned

\* C23 as stated: the first component of the pair normalize returns is the
\* list of the identifier gates, the second the list of the preferred-label
\* gates.
C23_IdentifiersFirst ==
  NormalizeDone =>
    /\ Len(Returned[1]) = Len(gates) /\ Len(Returned[2]) = Len(gates)
    /\ \A i \in 1..Len(gates) :
         /\ Returned[1][i] = ShortForm(Picked(i)) \o TokenSuffix(i)
         /\ Returned[2][i] = PreferredChoice(i) \o TokenSuffix(i)

\* C23 as amended: the first component of the pair normalize returns is the
\* list of the preferred-label gates, the second the list of the identifier
\* gates.
C23_PreferredLabelsFirst ==
  NormalizeDone =>
    /\ Len(Returned[1]) = Len(gates) /\ Len(Returned[2]) = Len(gates)
    /\ \A i \in 1..Len(gates) :
         /\ Returned[1][i] = PreferredChoice(i) \o TokenSuffix(i)
         /\ Returned[2][i] = ShortForm(Picked(i)) \o TokenSuffix(i)

\* a token whose identifier and preferred label differ
C23_Witness ==
  /\ NormalizeDone
  /\ \E i \in 1..Len(gates) :
       /\ HasKey(gate_mappings, TokenLabel(i))
       /\ HasKey(preferred, Picked(i))
       /\ Returned[1][i] # Returned[2][i]
       /\ Returned[1][i] = DictGet(preferred, Picked(i)) \o TokenSuffix(i)

(***************************************************************************)
(* The messages of validate for one marker.                                *)
(***************************************************************************)

\* the level validate reads from the marker, the identifier of the marker and
\* the level the cell type expects for it
ReportedLevel == get_clean_marker(marker_name)[2]
MarkerId == DictGet(gate_names, get_clean_marker(marker_name)[1])
ExpectedLevel == DictGet(valid_gates, MarkerId)

\* one of the two levels is positive and the other is high or low
Informational(lvl, exp) ==
  LET positive == <<"p","o","s","i","t","i","v","e">>
      graded == {<<"h","i","g","h">>, <<"l","o","w">>}
  IN \/ lvl = positive /\ exp \in graded
     \/ lvl \in graded /\ exp = positive

ExtraResolved ==
  normalize(tokenize(<<"S","t","a","n","d","a","r","d">>, suffixsymbs, suffixsyns,
                     Strip(main_row.extra)).tokenized,
            gate_mappings, special_gates, preferred, Values(suffixsymbs)).returned

\* the gates of the cell: those of the definition of the row's cell type in
\* the Cell Ontology, then the extra gates
CellGates ==
  LET cell_type == IF StartsWith(main_row.CL_ID, <<"C","L",":">>)
                     THEN s_CL_long \o From(main_row.CL_ID, 4) ELSE main_row.CL_ID
  IN (IF cell_type # <<>> /\ HasKey(iri_gates, cell_type)
        THEN PopulationGates(DictGet(iri_gates, cell_type), preferred).gates
        ELSE <<>>) \o ExtraResolved[1]

\* the gates of the reported definition
DefinitionGates == ReportedResolved[1]

LabelOf(g) == split_gate(g, Values(suffixsymbs))[1]
LevelOf(g) == split_gate(g, Values(suffixsymbs))[2]

\* the polarity 'expressed' as stated: every level but negative and low
ExpressedUnlessNegativeOrLow(g) == LevelOf(g) \notin {<<"-">>, <<"+","-">>}

\* the polarity 'expressed' of main: every level but negative
ExpressedUnlessNegative(g) == LevelOf(g) # <<"-">>

\* the conflicts of the row under a polarity: for each gate of the cell, in
\* order, the gates of the reported definition with its label and the other
\* polarity
ConflictsUnder(Expressed(_)) ==
  Concat([i \in 1..Len(CellGates) |->
            LET against == SelectSeq(DefinitionGates,
                             LAMBDA d : /\ LabelOf(d) = LabelOf(CellGates[i])
                                        /\ Expressed(d) # Expressed(CellGates[i]))
            IN [k \in 1..Len(against) |->
                  CellGates[i] \o <<"/">> \o LevelOf(against[k])]])

\* C25 as stated: the conflicts main writes are the pairs of a gate of the
\* cell and a gate of the definition that have the same label and different
\* polarities, low counting as 'not expressed' with negative.
C25_LowIsNotExpressed ==
  RowWritten =>
    main_row.Conflicts = Join(ConflictsUnder(ExpressedUnlessNegativeOrLow), s_comma_space)

\* C25 as amended: the conflicts main writes are the pairs of a gate of the
\* cell and a gate of the definition that have the same label and different
\* polarities, negative alone counting as 'not expressed'.
C25_OnlyNegativeIsNotExpressed ==
  RowWritten =>
    main_row.Conflicts = Join(ConflictsUnder(ExpressedUnlessNegative), s_comma_space)

\* a row with a low gate of the cell against a positive gate of the
\* definition, which main does not report, and a negative gate of the cell
\* against a positive gate of the definition, which it reports
C25_Witness ==
  /\ RowWritten
  /\ \E i \in 1..Len(CellGates) : \E k \in 1..Len(DefinitionGates) :
       /\ LabelOf(CellGates[i]) = LabelOf(DefinitionGates[k])
       /\ LevelOf(CellGates[i]) = <<"+","-">> /\ LevelOf(DefinitionGates[k]) = <<"+">>
  /\ \E i \in 1..Len(CellGates) : \E k \in 1..Len(DefinitionGates) :
       /\ LabelOf(CellGates[i]) = LabelOf(DefinitionGates[k])
       /\ LevelOf(CellGates[i]) = <<"-">> /\ LevelOf(DefinitionGates[k]) = <<"+">>
       /\ main_row.Conflicts = CellGates[i] \o <<"/">> \o LevelOf(DefinitionGates[k])

(***************************************************************************)
(* The counters of the summary.                                            *)
(***************************************************************************)

\* get_centers_info has returned
SummaryDone == op = "get_centers_info" /\ done /\ ~raised

\* the four counters of a center
Counters ==
  {Key.TOTAL_GATES, Key.MATCHED_GATES, Key.TOTAL_POPULATIONS, Key.MATCHED_POPULATIONS}

\* the centers: the names of the rows
CenterNames == {DictGet(report_rows[k], Key.NAME) : k \in 1..Len(report_rows)}

\* the sum of a counter over a set of centers
RECURSIVE SumOver(_, _)
SumOver(names, counter) ==
  IF names = {} THEN 0
  ELSE LET n == CHOOSE x \in names : TRUE
       IN Counter(centers, n, counter) + SumOver(names \ {n}, counter)

\* the rows of a center none of whose gates starts with '!'
PerfectRows(name) ==
  {k \in 1..Len(report_rows) :
     /\ DictGet(report_rows[k], Key.NAME) = name
     /\ MatchedStarts(DictGet(report_rows[k], Key.Mapped))
          = GateStarts(DictGet(report_rows[k], Key.Mapped))}

\* C26: after get_centers_info each counter under 'TOTAL' is the sum of the
\* counter over the centers, no center has more matched gates than gates or
\* more matched populations than populations, and the matched populations of
\* a center are its rows without a gate that starts with '!'.
C26_TotalIsSumOfCenters ==
  SummaryDone =>
    /\ \A c \in Counters :
         Counter(centers, Key.TOTAL, c) = SumOver(CenterNames, c)
    /\ \A n \in CenterNames \cup {Key.TOTAL} :
         /\ Counter(centers, n, Key.MATCHED_GATES) <= Counter(centers, n, Key.TOTAL_GATES)
         /\ Counter(centers, n, Key.MATCHED_POPULATIONS)
              <= Counter(centers, n, Key.TOTAL_POPULATIONS)
    /\ \A n \in CenterNames :
         Counter(centers, n, Key.MATCHED_POPULATIONS) = Cardinality(PerfectRows(n))

\* the same, on the rows of centers that are not named 'TOTAL'
C26_UnlessACenterIsNamedTotal ==
  (SummaryDone /\ Key.TOTAL \notin CenterNames) =>
    /\ \A c \in Counters :
         Counter(centers, Key.TOTAL, c) = SumOver(CenterNames, c)
    /\ \A n \in CenterNames \cup {Key.TOTAL} :
         /\ Counter(centers, n, Key.MATCHED_GATES) <= Counter(centers, n, Key.TOTAL_GATES)
         /\ Counter(centers, n, Key.MATCHED_POPULATIONS)
              <= Counter(centers, n, Key.TOTAL_POPULATIONS)
    /\ \A n \in CenterNames :
         Counter(centers, n, Key.MATCHED_POPULATIONS) = Cardinality(PerfectRows(n))

(***************************************************************************)
(* The maps of update_iri_maps_from_owl called without maps.               *)
(***************************************************************************)

\* update_iri_maps_from_owl has returned
OwlDone == op = "update_iri_maps_from_owl" /\ runs >= 1

\* the maps of the tree alone
OfTreeAlone == update_iri_maps_from_owl(tree, <<>>, <<>>, <<>>, <<>>)

\* C27: a call of update_iri_maps_from_owl without the map arguments returns
\* in iri_gates, iri_parents and synonym_iris the entries of the tree of this
\* call and no others, whatever the calls before it.
C27_StartsFromEmptyMaps ==
  OwlDone =>
    /\ returned_maps.iri_gates = OfTreeAlone.iri_gates
    /\ returned_maps.iri_parents = OfTreeAlone.iri_parents
    /\ returned_maps.synonym_iris = OfTreeAlone.synonym_iris

\* the one map the function makes anew in each such call
C27_LabelsStartFromBasicLabels ==
  OwlDone => returned_maps.iri_labels = OfTreeAlone.iri_labels

(***************************************************************************)
(* The two parts split_gate returns.                                       *)
(***************************************************************************)

\* split_gate has returned
SplitGateDone == op = "split_gate" /\ done

\* C28: the label and the suffix split_gate returns, joined, are the gate,
\* for every gate and every list of symbols, a list with the empty symbol and
\* a gate that is a symbol included.
C28_LabelPlusSuffixIsGate ==
  SplitGateDone => split[1] \o split[2] = gate

\* the same, for the lists of symbols without the empty symbol
C28_UnlessASymbolIsEmpty ==
  (SplitGateDone /\ \A k \in 1..Len(symbols) : symbols[k] # <<>>) =>
    split[1] \o split[2] = gate

(***************************************************************************)
(* The conflicts of gates whose marker is not recognised.                  *)
(***************************************************************************)

\* C29: parse_gates_field records a conflict only for a gate whose marker
\* has an identifier: a gate whose marker name is not recognised is in no
\* conflict record and is not flagged, and neither is a gate of the cell.
C29_UnrecognisedNeverConflicts ==
  GatingDone =>
    /\ \A k \in 1..Len(gating.conflicts) : gating.conflicts[k].kind # None
    /\ \A p \in ConflictPairs :
         gating.results[p[1]].kind # None /\ cell.results[p[2]].kind # None

(***************************************************************************)
(* The report and the summary of a row main wrote.                         *)
(***************************************************************************)

\* the report has returned a row for the row main wrote
MainRowReported == op = "main" /\ runs >= 1 /\ ~report_result.returned_none

\* the resolved gates main joined into 'Gating mapped to ontologies'
WrittenGates == ExtraResolved[2]

\* those of them that do not start with '!'
WrittenMatched == SelectSeq(WrittenGates, LAMBDA g : ~StartsWith(g, <<"!">>))

\* C30: for a row whose 'Gating mapped to ontologies' main wrote, the report
\* sets TOTAL_GATES to the number of resolved gates main wrote into the column
\* and MATCHED_GATES to the number of them that do not start with '!', and the
\* summary counts the same numbers for the row's center.
C30_ReportCountsWrittenGates ==
  MainRowReported =>
    /\ DictGet(report_row, Key.Mapped) = Join(WrittenGates, s_comma_space)
    /\ DictGet(report_result.row, Key.TOTAL_GATES) = Len(WrittenGates)
    /\ DictGet(report_result.row, Key.MATCHED_GATES) = Len(WrittenMatched)
    /\ runs = 2 =>
         /\ Counter(centers, main_row.NAME, Key.TOTAL_GATES) = Len(WrittenGates)
         /\ Counter(centers, main_row.NAME, Key.MATCHED_GATES) = Len(WrittenMatched)

\* the same, for the rows into whose column main wrote one gate
C30_ForOneWrittenGate ==
  (MainRowReported /\ Len(WrittenGates) = 1) =>
    /\ DictGet(report_row, Key.Mapped) = Join(WrittenGates, s_comma_space)
    /\ DictGet(report_result.row, Key.TOTAL_GATES) = Len(WrittenGates)
    /\ DictGet(report_result.row, Key.MATCHED_GATES) = Len(WrittenMatched)
    /\ runs = 2 =>
         /\ Counter(centers, main_row.NAME, Key.TOTAL_GATES) = Len(WrittenGates)
         /\ Counter(centers, main_row.NAME, Key.MATCHED_GATES) = Len(WrittenMatched)

====
